---- MODULE Spec2Model ----
(***************************************************************************)
(* State-machine model of the DPDK sampler library (lib/sampler):          *)
(* sessions, sources, sinks, the sampling pass and the polling driver of   *)
(* rte_sampler.c.                                                          *)
(***************************************************************************)
EXTENDS Integers, Sequences, FiniteSets, TLC

VARIABLES
    sess,       \* session pointer -> struct rte_sampler_session (or a freed block)
    reg,        \* sampler_global: the session registry
    now,        \* rte_get_timer_cycles()
    hz,         \* rte_get_timer_hz()
    divz,       \* what this build does on a division by zero: Trap or the quotient
    width,      \* number of bits of the cycle counter and of the elapsed-time words
    rb,         \* the ring buffer sink: struct ringbuffer_sink_data and its registry slot
    pc,         \* per thread, the ring buffer call it is in and where
    xid,        \* rte_sampler_xstats_id.c: allocated_ids (the set of bits set) and next_free_id
    heap,       \* what a read past the end of an allocated array finds
    adapters,   \* behaviour of the source adapter behind each source_id
    failAt,     \* allocator: 0 = no failure, k > 0 = the k-th next allocation fails
    regs,       \* per session, the number of register calls made (names the records)
    log,        \* adapter callbacks made by the last library call, in call order
    ret         \* the last library call and what it returned

vars == <<sess, reg, now, hz, divz, width, rb, pc, xid, heap, adapters, failAt, regs, log, ret>>

(***************************************************************************)
(* Program constants                                                       *)
(***************************************************************************)
INITIAL_SESSIONS_CAPACITY == 32
INITIAL_SOURCES_PER_SESSION == 8
INITIAL_SINKS_PER_SESSION == 4
RTE_SAMPLER_SINK_F_NO_NAMES == 1
MsPerSec == 1000
EINVAL == 22
ENOMEM == 12

(***************************************************************************)
(* Bounds of the model                                                     *)
(***************************************************************************)
\* width of the cycle counter and of the elapsed-time arithmetic (uint64_t in
\* the code, scaled down so that the wrap of "elapsed * 1000" is reachable)
CycleBits == 11
\* largest value the clock takes
MaxClock == 3
\* session pointers
MaxSessions == 2
\* registrations per session in the fault and filter specifications
MaxSourceRegs == 2
MaxSinkRegs == 2
MaxFilterRegs == 1
\* registrations per session in the ordering specification
MaxOrderRegs == 3
\* registrations in the specification that grows the source array
MaxGrowRegs == 9
\* registrations per session in the polling specification
MaxPollRegs == 1
\* largest value of the clock in the sampling specification
MaxSampleClock == 1
\* rte_get_timer_hz(): cycles per second
TimerHz == 1000

Word == 2 ^ CycleBits
\* the value of divz on a build whose division instruction traps on zero
Trap == 0 - 1

(***************************************************************************)
(* Strings are sequences of characters                                     *)
(***************************************************************************)
S_s0 == <<"s", "0">>
S_s1 == <<"s", "1">>
S_s2 == <<"s", "2">>
S_rx_pkts == <<"r", "x", "_", "p">>
S_rx_bytes == <<"r", "x", "_", "b">>
S_tx_pkts == <<"t", "x", "_", "p">>
S_tx_bytes == <<"t", "x", "_", "b">>
S_errors == <<"e", "r", "r">>
P_rx_star == <<"r", "x", "_", "*">>
P_errors == <<"e", "r", "r">>
P_tx_q == <<"t", "x", "_", "?">>
P_none == <<"z">>

\* the character at position i of a 0-terminated string ("" past the end)
CharAt(str, i) == IF i <= Len(str) THEN str[i] ELSE ""

(***************************************************************************)
(* match_pattern: positions p and s are the two pointers of the C code     *)
(***************************************************************************)
RECURSIVE SkipStars(_, _)
SkipStars(pat, p) ==
    IF CharAt(pat, p + 1) = "*" THEN SkipStars(pat, p + 1) ELSE p

\* a matcher that leaves the asterisks at the end of the pattern unread
TrailingStars_None(pat, p) == p

RECURSIVE TrailingStars(_, _)
TrailingStars(pat, p) ==
    IF CharAt(pat, p) = "*" THEN TrailingStars(pat, p + 1) ELSE p

RECURSIVE MatchAt(_, _, _, _)
RECURSIVE TryRest(_, _, _, _)
\* the inner "while (*str)" loop after an asterisk
TryRest(pat, p, str, s) ==
    IF CharAt(str, s) = "" THEN FALSE
    ELSE IF MatchAt(pat, p + 1, str, s) THEN TRUE
    ELSE TryRest(pat, p, str, s + 1)

MatchAt(pat, p, str, s) ==
    IF CharAt(pat, p) # "" /\ CharAt(str, s) # ""
    THEN IF CharAt(pat, p) = "*"
         THEN LET q == SkipStars(pat, p)
              IN IF CharAt(pat, q + 1) = "" THEN TRUE
                 ELSE TryRest(pat, q, str, s)
         ELSE IF CharAt(pat, p) = "?" \/ CharAt(pat, p) = CharAt(str, s)
              THEN MatchAt(pat, p + 1, str, s + 1)
              ELSE FALSE
    ELSE LET q == TrailingStars(pat, p)
         IN CharAt(pat, q) = "" /\ CharAt(str, s) = ""

match_pattern(pattern, str) == MatchAt(pattern, 1, str, 1)

(***************************************************************************)
(* Source adapters (the callbacks of struct rte_sampler_source_ops).  The  *)
(* adapter behind source_id k answers the size query with adv and the fill *)
(* call with fill, the number of catalog entries it has at that moment;    *)
(* mode says which of its callbacks currently fails.                       *)
(***************************************************************************)
AdapterIds == {0, 1}
AdapterModes == {"ok", "size_err", "fill_err", "get_err"}

Catalog(k) ==
    IF k = 0
    THEN << [name |-> S_s0, id |-> 0], [name |-> S_s1, id |-> 1],
            [name |-> S_s2, id |-> 2] >>
    ELSE << [name |-> S_rx_pkts, id |-> 0], [name |-> S_rx_bytes, id |-> 1],
            [name |-> S_tx_pkts, id |-> 2], [name |-> S_tx_bytes, id |-> 3],
            [name |-> S_errors, id |-> 4] >>

\* the value the adapter reports for a stat id
StatValue(k, id) == (id + 1) * 10

Min(a, b) == IF a < b THEN a ELSE b

\* xstats_names_get(source_id, NULL, NULL, 0, user_data)
AdapterNamesSize(k) ==
    IF adapters[k].mode = "size_err" THEN -1 ELSE adapters[k].adv

\* xstats_names_get(source_id, names, ids, size, user_data): return value
AdapterNamesFill(k, size) ==
    IF adapters[k].mode = "fill_err" THEN -1 ELSE adapters[k].fill

\* the arrays after the fill call: the first min(fill, size) slots are written
FilledNames(k, arr, size) ==
    [i \in 1 .. Len(arr) |->
        IF adapters[k].mode # "fill_err" /\ i <= Min(adapters[k].fill, size)
        THEN Catalog(k)[i].name ELSE arr[i]]

FilledIds(k, arr, size) ==
    [i \in 1 .. Len(arr) |->
        IF adapters[k].mode # "fill_err" /\ i <= Min(adapters[k].fill, size)
        THEN Catalog(k)[i].id ELSE arr[i]]

\* xstats_reset(source_id, ids, n, user_data): return value
AdapterReset(k) ==
    IF adapters[k].mode = "reset_err" THEN -1 ELSE 0

\* xstats_get(source_id, ids, values, n, user_data): return value
AdapterGet(k, n) ==
    IF adapters[k].mode = "get_err" THEN -1 ELSE n

\* the values array after xstats_get: values[i] is the value of ids[i], i < n
FetchedValues(k, ids, vals, n) ==
    [i \in 1 .. Len(vals) |->
        IF adapters[k].mode # "get_err" /\ i <= n
        THEN StatValue(k, ids[i]) ELSE vals[i]]

(***************************************************************************)
(* The allocator (rte_zmalloc / rte_malloc) and the heap.  An array of the *)
(* model has the length it was allocated with; a read past its end finds   *)
(* the word or the string the heap holds there, a write past its end does  *)
(* not change the array.                                                   *)
(***************************************************************************)
ZeroHeap == [word |-> 0, name |-> <<>>]
HeapStates == {ZeroHeap, [word |-> 7, name |-> S_s0]}

\* arr[i] as the C code reads it
WordAt(arr, i) == IF i <= Len(arr) THEN arr[i] ELSE heap.word
NameAt(arr, i) == IF i <= Len(arr) THEN arr[i] ELSE heap.name

AllocFails(fa) == fa = 1
AfterAlloc(fa) == IF fa > 0 THEN fa - 1 ELSE 0

\* a zeroed array of n elements
Zeros(n) == [i \in 1 .. n |-> 0]
EmptyNames(n) == [i \in 1 .. n |-> <<>>]
\* the NULL char pointer inside a pattern array
NullStr == <<"NULL">>

(***************************************************************************)
(* struct rte_sampler_source, struct rte_sampler_sink,                     *)
(* struct rte_sampler_session, sampler_global                              *)
(***************************************************************************)
NoSourceOps == [xstats_names_get |-> FALSE, xstats_get |-> FALSE,
                xstats_reset |-> FALSE]

ZeroSource ==
    [session |-> 0, name |-> 0, source_id |-> 0, ops |-> NoSourceOps,
     xstats_names |-> <<>>, ids |-> <<>>, values |-> <<>>,
     xstats_count |-> 0, xstats_capacity |-> 0,
     filter_patterns |-> <<>>, num_filter_patterns |-> 0,
     filter_patterns_capacity |-> 0,
     filtered_ids |-> <<>>, filtered_count |-> 0,
     filter_active |-> FALSE, valid |-> FALSE]

NoSinkOps == [output |-> "NULL", flags |-> 0]

\* user_data is the call counter a counting sink is registered with
ZeroSink ==
    [session |-> 0, name |-> 0, ops |-> NoSinkOps, user_data |-> 0,
     valid |-> FALSE]

\* a block that is not allocated (never created, or freed)
FreeBlock ==
    [alloc |-> FALSE, sample_interval_ms |-> 0, duration_ms |-> 0,
     start_time |-> 0, last_sample_time |-> 0,
     active |-> FALSE, valid |-> FALSE,
     sources |-> <<>>, sinks |-> <<>>,
     num_sources |-> 0, num_sinks |-> 0,
     sources_capacity |-> 0, sinks_capacity |-> 0]

EmptyRegistry == [sessions |-> <<>>, num_sessions |-> 0, capacity |-> 0]

\* sampled: the sessions a poll call handed to rte_sampler_sample, in order
\* sampled lists the sessions a poll sampled; out is the caller's output
\* array after a call that fills one
Ret(op, s, val) ==
    [op |-> op, s |-> s, val |-> val, sampled |-> <<>>, out |-> <<>>]

\* an array argument of a caller: the NULL pointer, or an array holding at
NullArr == [null |-> TRUE, at |-> <<>>]
Arr(at) == [null |-> FALSE, at |-> at]

\* the addresses at which a session block can be allocated; 0 is NULL
SessIds == DOMAIN sess

\* the live session blocks
Live == {s \in SessIds : sess[s].alloc}

\* a session pointer a caller can hold: NULL or an allocated block
Addressable(s) == IF s = 0 THEN TRUE ELSE sess[s].alloc

\* flags & bit
HasFlag(flags, bit) == (flags \div bit) % 2 = 1

(***************************************************************************)
(* Elapsed milliseconds as computed at rte_sampler.c:290 and :637          *)
(***************************************************************************)
ElapsedMs(current_time, since) ==
    IF hz = 0 THEN divz
    ELSE ((((current_time - since) % (2 ^ width)) * MsPerSec) % (2 ^ width))
            \div hz

\* the division of lines 290 and 637 stops the process
DivTraps == hz = 0 /\ divz = Trap

\* the process has been stopped by a division by zero
Killed == ret.op = "SIGFPE"

(***************************************************************************)
(* rte_sampler_session_create                                              *)
(***************************************************************************)
\* index (1-based) of the first NULL slot of the registry, 0 if none
FirstNullSlot(arr) ==
    IF \E i \in 1 .. Len(arr) : arr[i] = 0
    THEN CHOOSE i \in 1 .. Len(arr) :
            arr[i] = 0 /\ \A j \in 1 .. i - 1 : arr[j] # 0
    ELSE 0

\* the session block as initialised at lines 99-139
NewSession(conf) ==
    [alloc |-> TRUE,
     sample_interval_ms |-> conf.sample_interval_ms,
     duration_ms |-> conf.duration_ms,
     start_time |-> 0, last_sample_time |-> 0,
     active |-> FALSE, valid |-> TRUE,
     sources |-> [i \in 1 .. INITIAL_SOURCES_PER_SESSION |-> ZeroSource],
     sinks |-> [i \in 1 .. INITIAL_SINKS_PER_SESSION |-> ZeroSink],
     num_sources |-> 0, num_sinks |-> 0,
     sources_capacity |-> INITIAL_SOURCES_PER_SESSION,
     sinks_capacity |-> INITIAL_SINKS_PER_SESSION]

\* an insertion that gives the session up when the registry cannot grow
RegistryInsert_FailOnGrow(r, s, fa) ==
    IF r.capacity = 0 /\ AllocFails(fa)
    THEN [reg |-> r, fa |-> 0, created |-> FALSE]
    ELSE
      LET r1 == IF r.capacity = 0
                THEN [sessions |-> Zeros(INITIAL_SESSIONS_CAPACITY),
                      num_sessions |-> 0,
                      capacity |-> INITIAL_SESSIONS_CAPACITY]
                ELSE r
          fa1 == IF r.capacity = 0 THEN AfterAlloc(fa) ELSE fa
          i == FirstNullSlot(r1.sessions)
      IN IF i # 0
         THEN [reg |-> [r1 EXCEPT !.sessions[i] = s,
                                  !.num_sessions =
                                      IF i - 1 >= r1.num_sessions
                                      THEN i ELSE r1.num_sessions],
               fa |-> fa1, created |-> TRUE]
         ELSE IF AllocFails(fa1)
         THEN [reg |-> r1, fa |-> 0, created |-> FALSE]
         ELSE [reg |-> [sessions |->
                            [j \in 1 .. 2 * r1.capacity |->
                                IF j <= r1.capacity THEN r1.sessions[j]
                                ELSE IF j = r1.capacity + 1 THEN s ELSE 0],
                        num_sessions |-> r1.capacity + 1,
                        capacity |-> 2 * r1.capacity],
               fa |-> AfterAlloc(fa1), created |-> TRUE]

\* the registry after the second part of create (lines 141-193);
\* fa is the allocator state when that part starts
RegistryInsert(r, s, fa) ==
    IF r.capacity = 0 /\ AllocFails(fa)
    THEN [reg |-> r, fa |-> 0, created |-> FALSE]
    ELSE
      LET r1 == IF r.capacity = 0
                THEN [sessions |-> Zeros(INITIAL_SESSIONS_CAPACITY),
                      num_sessions |-> 0,
                      capacity |-> INITIAL_SESSIONS_CAPACITY]
                ELSE r
          fa1 == IF r.capacity = 0 THEN AfterAlloc(fa) ELSE fa
          i == FirstNullSlot(r1.sessions)
      IN IF i # 0
         THEN [reg |-> [r1 EXCEPT !.sessions[i] = s,
                                  !.num_sessions =
                                      IF i - 1 >= r1.num_sessions
                                      THEN i ELSE r1.num_sessions],
               fa |-> fa1, created |-> TRUE]
         ELSE IF AllocFails(fa1)
         THEN [reg |-> r1, fa |-> 0, created |-> TRUE]
         ELSE [reg |-> [sessions |->
                            [j \in 1 .. 2 * r1.capacity |->
                                IF j <= r1.capacity THEN r1.sessions[j]
                                ELSE IF j = r1.capacity + 1 THEN s ELSE 0],
                        num_sessions |-> r1.capacity + 1,
                        capacity |-> 2 * r1.capacity],
               fa |-> AfterAlloc(fa1), created |-> TRUE]

\* conf = [sample_interval_ms, duration_ms]; the NULL conf is interval 0, duration 0
rte_sampler_session_create(conf) ==
    /\ \E p \in SessIds : ~sess[p].alloc
    /\ LET s == CHOOSE p \in SessIds :
                    ~sess[p].alloc /\ \A q \in SessIds : q < p => sess[q].alloc
           \* the three allocations of lines 99-122
           failed == failAt \in 1 .. 3
           fa3 == IF failAt > 3 THEN failAt - 3 ELSE 0
           ins == RegistryInsert(reg, s, fa3)
       IN IF failed
          THEN /\ failAt' = 0
               /\ ret' = Ret("create", 0, 0)
               /\ UNCHANGED <<sess, reg, regs>>
          ELSE IF ~ins.created
          THEN /\ failAt' = ins.fa
               /\ ret' = Ret("create", 0, 0)
               /\ UNCHANGED <<sess, reg, regs>>
          ELSE /\ sess' = [sess EXCEPT ![s] = NewSession(conf)]
               /\ reg' = ins.reg
               /\ failAt' = ins.fa
               /\ regs' = [regs EXCEPT ![s] = [src |-> 0, snk |-> 0]]
               /\ ret' = Ret("create", s, s)
    /\ log' = <<>>
    /\ UNCHANGED <<now, hz, divz, width, rb, pc, xid, heap, adapters>>

(***************************************************************************)
(* rte_sampler_session_start / _stop / _is_active                          *)
(***************************************************************************)
rte_sampler_session_start(s) ==
    /\ Addressable(s)
    /\ IF s = 0 \/ ~sess[s].valid
       THEN /\ ret' = Ret("start", s, -EINVAL)
            /\ UNCHANGED sess
       ELSE /\ sess' = [sess EXCEPT ![s].active = TRUE,
                                    ![s].start_time = now,
                                    ![s].last_sample_time = now]
            /\ ret' = Ret("start", s, 0)
    /\ log' = <<>>
    /\ UNCHANGED <<reg, now, hz, divz, width, rb, pc, xid, heap, adapters, failAt, regs>>

\* a stop that leaves the active flag as it is
Stopped_Noop(S) == S

\* a stop that also forgets when the session was last sampled
Stopped_ClearTime(S) == [S EXCEPT !.active = FALSE, !.last_sample_time = 0]

\* the session block after rte_sampler_session_stop
Stopped(S) == [S EXCEPT !.active = FALSE]

rte_sampler_session_stop(s) ==
    /\ Addressable(s)
    /\ IF s = 0 \/ ~sess[s].valid
       THEN /\ ret' = Ret("stop", s, -EINVAL)
            /\ UNCHANGED sess
       ELSE /\ sess' = [sess EXCEPT ![s] = Stopped(sess[s])]
            /\ ret' = Ret("stop", s, 0)
    /\ log' = <<>>
    /\ UNCHANGED <<reg, now, hz, divz, width, rb, pc, xid, heap, adapters, failAt, regs>>

\* an expiry test that does not look at the active flag first
IsActive_NoFlagTest(S) ==
    IF ~S.valid THEN [val |-> -EINVAL, S |-> S]
    ELSE IF S.duration_ms > 0 /\ ElapsedMs(now, S.start_time) >= S.duration_ms
    THEN [val |-> 0, S |-> [S EXCEPT !.active = FALSE]]
    ELSE [val |-> 1, S |-> S]

\* return value and session block after rte_sampler_session_is_active
IsActive(S) ==
    IF ~S.valid THEN [val |-> -EINVAL, S |-> S]
    ELSE IF ~S.active THEN [val |-> 0, S |-> S]
    ELSE IF S.duration_ms > 0 /\ ElapsedMs(now, S.start_time) >= S.duration_ms
    THEN [val |-> 0, S |-> [S EXCEPT !.active = FALSE]]
    ELSE [val |-> 1, S |-> S]

\* lines 284-288: rte_sampler_session_is_active reaches its division
IsActiveDivides(S) == S.valid /\ S.active /\ S.duration_ms > 0

rte_sampler_session_is_active(s) ==
    /\ Addressable(s)
    /\ IF s = 0
       THEN /\ ret' = Ret("is_active", s, -EINVAL)
            /\ UNCHANGED sess
       ELSE IF DivTraps /\ IsActiveDivides(sess[s])
       THEN /\ ret' = Ret("SIGFPE", s, 0)
            /\ UNCHANGED sess
       ELSE /\ sess' = [sess EXCEPT ![s] = IsActive(sess[s]).S]
            /\ ret' = Ret("is_active", s, IsActive(sess[s]).val)
    /\ log' = <<>>
    /\ UNCHANGED <<reg, now, hz, divz, width, rb, pc, xid, heap, adapters, failAt, regs>>

(***************************************************************************)
(* rte_sampler_session_free                                                *)
(***************************************************************************)
\* a search that never finds the session
RegistrySlotOf_Never(r, s) == 0

\* index of the registry slot cleared by free (0 if the session is not found)
RegistrySlotOf(r, s) ==
    IF \E i \in 1 .. r.num_sessions : r.sessions[i] = s
    THEN CHOOSE i \in 1 .. r.num_sessions :
            r.sessions[i] = s /\ \A j \in 1 .. i - 1 : r.sessions[j] # s
    ELSE 0

\* the number of heap blocks the source record src points to: the four
\* cache arrays, the pattern array and the pattern strings
SourceBlocks(src) ==
    (IF src.xstats_names # <<>> THEN 1 ELSE 0)
    + (IF src.ids # <<>> THEN 1 ELSE 0)
    + (IF src.values # <<>> THEN 1 ELSE 0)
    + (IF src.filtered_ids # <<>> THEN 1 ELSE 0)
    + (IF src.filter_patterns # <<>> THEN 1 ELSE 0)
    + Cardinality({j \in 1 .. Len(src.filter_patterns) :
                      src.filter_patterns[j] # NullStr})

\* lines 209-226: the source records whose blocks the free releases
ReleasedByFree(S) ==
    {i \in 1 .. S.num_sources : S.sources[i].valid}

rte_sampler_session_free(s) ==
    /\ Addressable(s)
    /\ IF s = 0
       THEN UNCHANGED <<sess, reg, regs>>
       ELSE /\ sess' = [sess EXCEPT ![s] = FreeBlock]
            /\ reg' = IF RegistrySlotOf(reg, s) # 0
                      THEN [reg EXCEPT !.sessions[RegistrySlotOf(reg, s)] = 0]
                      ELSE reg
            /\ regs' = [regs EXCEPT ![s] = [src |-> 0, snk |-> 0]]
    /\ ret' = Ret("free", s, 0)
    /\ log' = <<>>
    /\ UNCHANGED <<now, hz, divz, width, rb, pc, xid, heap, adapters, failAt>>
(***************************************************************************)
(* rte_sampler_source_register / _unregister                               *)
(***************************************************************************)
\* index (1-based) of the first record that is not valid, 0 if all are valid
FirstFreeRecord(arr) ==
    IF \E i \in 1 .. Len(arr) : ~arr[i].valid
    THEN CHOOSE i \in 1 .. Len(arr) :
            ~arr[i].valid /\ \A j \in 1 .. i - 1 : arr[j].valid
    ELSE 0

\* doubling that forgets to copy the old records
Doubled_NoCopy(arr, zero) ==
    [j \in 1 .. 2 * Len(arr) |-> zero]

\* the array after doubling: the old records followed by zeroed ones
Doubled(arr, zero) ==
    [j \in 1 .. 2 * Len(arr) |-> IF j <= Len(arr) THEN arr[j] ELSE zero]

\* *ops as stored in the record
SourceOpsOf(ops) ==
    [xstats_names_get |-> ops.xstats_names_get, xstats_get |-> ops.xstats_get,
     xstats_reset |-> ops.xstats_reset]

\* source_name = 0 is the NULL name, ops.is_null the NULL ops pointer
\* an argument test that accepts ops without the two mandatory callbacks
SourceArgsBad_NoCallbackTest(s, source_name, ops) ==
    \/ s = 0
    \/ ~sess[s].valid
    \/ source_name = 0
    \/ ops.is_null

\* lines 323-328: the arguments rte_sampler_source_register rejects
SourceArgsBad(s, source_name, ops) ==
    \/ s = 0
    \/ ~sess[s].valid
    \/ source_name = 0
    \/ ops.is_null
    \/ ~ops.xstats_names_get
    \/ ~ops.xstats_get

rte_sampler_source_register(s, source_name, source_id, ops) ==
    /\ Addressable(s)
    /\ IF SourceArgsBad(s, source_name, ops)
       THEN /\ ret' = Ret("source_register", s, 0)
            /\ UNCHANGED <<sess, failAt, regs>>
       ELSE
         LET S == sess[s]
             free == FirstFreeRecord(S.sources)
             grow == free = 0
             i == IF grow THEN S.sources_capacity + 1 ELSE free
             arr == IF grow THEN Doubled(S.sources, ZeroSource) ELSE S.sources
             rec == [ZeroSource EXCEPT !.session = s,
                                       !.name = source_name,
                                       !.source_id = source_id,
                                       !.ops = SourceOpsOf(ops),
                                       !.valid = TRUE]
         IN IF grow /\ AllocFails(failAt)
            THEN /\ failAt' = 0
                 /\ ret' = Ret("source_register", s, 0)
                 /\ UNCHANGED <<sess, regs>>
            ELSE /\ sess' = [sess EXCEPT
                       ![s].sources = [arr EXCEPT ![i] = rec],
                       ![s].sources_capacity = Len(arr),
                       ![s].num_sources =
                           IF i - 1 >= S.num_sources THEN i ELSE S.num_sources]
                 /\ failAt' = IF grow THEN AfterAlloc(failAt) ELSE failAt
                 /\ regs' = [regs EXCEPT ![s].src = @ + 1]
                 /\ ret' = Ret("source_register", s, i)
    /\ log' = <<>>
    /\ UNCHANGED <<reg, now, hz, divz, width, rb, pc, xid, heap, adapters>>

\* the handle is a pointer to record i of the source array of session s
rte_sampler_source_unregister(s, i) ==
    /\ sess[s].alloc
    /\ i \in 1 .. sess[s].sources_capacity
    /\ IF ~sess[s].sources[i].valid
       THEN /\ ret' = Ret("source_unregister", s, -EINVAL)
            /\ UNCHANGED sess
       ELSE /\ sess' = [sess EXCEPT ![s].sources[i].valid = FALSE]
            /\ ret' = Ret("source_unregister", s, 0)
    /\ log' = <<>>
    /\ UNCHANGED <<reg, now, hz, divz, width, rb, pc, xid, heap, adapters, failAt, regs>>

(***************************************************************************)
(* rte_sampler_sink_register / _unregister                                 *)
(***************************************************************************)
\* *ops as stored in the record
SinkOpsOf(ops) == [output |-> ops.output, flags |-> ops.flags]

\* ops.output is "NULL" or names the callback: "ok" returns 0, "fail" returns -1
rte_sampler_sink_register(s, sink_name, ops) ==
    /\ Addressable(s)
    /\ IF \/ s = 0
          \/ ~sess[s].valid
          \/ sink_name = 0
          \/ ops.is_null
          \/ ops.output = "NULL"
       THEN /\ ret' = Ret("sink_register", s, 0)
            /\ UNCHANGED <<sess, failAt, regs>>
       ELSE
         LET S == sess[s]
             free == FirstFreeRecord(S.sinks)
             grow == free = 0
             i == IF grow THEN S.sinks_capacity + 1 ELSE free
             arr == IF grow THEN Doubled(S.sinks, ZeroSink) ELSE S.sinks
             rec == [ZeroSink EXCEPT !.session = s,
                                     !.name = sink_name,
                                     !.ops = SinkOpsOf(ops),
                                     !.valid = TRUE]
         IN IF grow /\ AllocFails(failAt)
            THEN /\ failAt' = 0
                 /\ ret' = Ret("sink_register", s, 0)
                 /\ UNCHANGED <<sess, regs>>
            ELSE /\ sess' = [sess EXCEPT
                       ![s].sinks = [arr EXCEPT ![i] = rec],
                       ![s].sinks_capacity = Len(arr),
                       ![s].num_sinks =
                           IF i - 1 >= S.num_sinks THEN i ELSE S.num_sinks]
                 /\ failAt' = IF grow THEN AfterAlloc(failAt) ELSE failAt
                 /\ regs' = [regs EXCEPT ![s].snk = @ + 1]
                 /\ ret' = Ret("sink_register", s, i)
    /\ log' = <<>>
    /\ UNCHANGED <<reg, now, hz, divz, width, rb, pc, xid, heap, adapters>>

rte_sampler_sink_unregister(s, j) ==
    /\ sess[s].alloc
    /\ j \in 1 .. sess[s].sinks_capacity
    /\ IF ~sess[s].sinks[j].valid
       THEN /\ ret' = Ret("sink_unregister", s, -EINVAL)
            /\ UNCHANGED sess
       ELSE /\ sess' = [sess EXCEPT ![s].sinks[j].valid = FALSE]
            /\ ret' = Ret("sink_unregister", s, 0)
    /\ log' = <<>>
    /\ UNCHANGED <<reg, now, hz, divz, width, rb, pc, xid, heap, adapters, failAt, regs>>

(***************************************************************************)
(* Handles.  rte_sampler_source_register and rte_sampler_sink_register     *)
(* return a pointer into the session's array.  A handle h = [cap, i] is    *)
(* the pointer to element i of the array that had cap elements; once a     *)
(* registration has replaced that array by a larger one (lines 349 and     *)
(* 432) the handle points into the released block, and what a call reads   *)
(* there is not defined: v is the valid flag it finds.                     *)
(***************************************************************************)
\* the capacity of an array that starts with c0 elements when its m-th
\* element is first used
RECURSIVE CapAtIssue(_, _)
CapAtIssue(m, c0) == IF m <= c0 THEN c0 ELSE CapAtIssue(m, 2 * c0)

\* the handle returned for the m-th record of an array that started with c0
HandleOf(m, c0) == [cap |-> CapAtIssue(m, c0), i |-> m]

\* rte_sampler_source_unregister(h)
SourceUnregisterAt(s, h, v) ==
    IF h.cap = sess[s].sources_capacity
    THEN rte_sampler_source_unregister(s, h.i)
    ELSE /\ sess[s].alloc
         /\ ret' = Ret("source_unregister", s, IF v THEN 0 ELSE -EINVAL)
         /\ log' = <<>>
         /\ UNCHANGED <<sess, reg, now, hz, divz, width, rb, pc, xid, heap, adapters,
                        failAt, regs>>

\* rte_sampler_sink_unregister(h)
SinkUnregisterAt(s, h, v) ==
    IF h.cap = sess[s].sinks_capacity
    THEN rte_sampler_sink_unregister(s, h.i)
    ELSE /\ sess[s].alloc
         /\ ret' = Ret("sink_unregister", s, IF v THEN 0 ELSE -EINVAL)
         /\ log' = <<>>
         /\ UNCHANGED <<sess, reg, now, hz, divz, width, rb, pc, xid, heap, adapters,
                        failAt, regs>>

(***************************************************************************)
(* matches_filter, apply_filter                                            *)
(***************************************************************************)
\* a filter that includes a stat only if every pattern matches its name
matches_filter_All(src, name) ==
    IF ~src.filter_active \/ src.num_filter_patterns = 0
    THEN TRUE
    ELSE \A i \in 1 .. src.num_filter_patterns :
            match_pattern(src.filter_patterns[i], name)

matches_filter(src, name) ==
    IF ~src.filter_active \/ src.num_filter_patterns = 0
    THEN TRUE
    ELSE \E i \in 1 .. src.num_filter_patterns :
            match_pattern(src.filter_patterns[i], name)

\* the ids of the first n cached stats whose name matches the filter, in order
RECURSIVE MatchedIds(_, _)
MatchedIds(src, n) ==
    IF n = 0 THEN <<>>
    ELSE IF matches_filter(src, NameAt(src.xstats_names, n))
         THEN Append(MatchedIds(src, n - 1), WordAt(src.ids, n))
         ELSE MatchedIds(src, n - 1)

\* arr with its first Len(head) elements replaced by head
Overwrite(arr, head) ==
    [i \in 1 .. Len(arr) |-> IF i <= Len(head) THEN head[i] ELSE arr[i]]

\* the first n words of arr as a copy loop reads them
FirstWords(arr, n) == [i \in 1 .. n |-> WordAt(arr, i)]

apply_filter(src) ==
    IF ~src.filter_active
    THEN [src EXCEPT
            !.filtered_count = src.xstats_count,
            !.filtered_ids =
                Overwrite(src.filtered_ids, FirstWords(src.ids, src.xstats_count))]
    ELSE LET m == MatchedIds(src, src.xstats_count)
         IN [src EXCEPT !.filtered_ids = Overwrite(src.filtered_ids, m),
                        !.filtered_count = Len(m)]
(***************************************************************************)
(* rte_sampler_source_clear_filter / _set_filter                           *)
(***************************************************************************)
\* the pattern array with its first n pointers freed and set to NULL
PatternsFreed(arr, n) ==
    [i \in 1 .. Len(arr) |-> IF i <= n THEN NullStr ELSE arr[i]]

\* a clear that drops the patterns but keeps the filtered ids
ClearedFilter_KeepIds(src) ==
    [src EXCEPT
        !.filter_patterns = PatternsFreed(src.filter_patterns,
                                          src.num_filter_patterns),
        !.num_filter_patterns = 0,
        !.filter_active = FALSE]

\* the source record after rte_sampler_source_clear_filter
ClearedFilter(src) ==
    [src EXCEPT
        !.filter_patterns = PatternsFreed(src.filter_patterns,
                                          src.num_filter_patterns),
        !.num_filter_patterns = 0,
        !.filter_active = FALSE,
        !.filtered_count = src.xstats_count,
        !.filtered_ids =
            Overwrite(src.filtered_ids, FirstWords(src.ids, src.xstats_count))]

rte_sampler_source_clear_filter(s, i) ==
    /\ sess[s].alloc
    /\ i \in 1 .. sess[s].sources_capacity
    /\ IF ~sess[s].sources[i].valid
       THEN /\ ret' = Ret("clear_filter", s, -EINVAL)
            /\ UNCHANGED sess
       ELSE /\ sess' = [sess EXCEPT ![s].sources[i] = ClearedFilter(@)]
            /\ ret' = Ret("clear_filter", s, 0)
    /\ log' = <<>>
    /\ UNCHANGED <<reg, now, hz, divz, width, rb, pc, xid, heap, adapters, failAt, regs>>

\* lines 1002-1026; the pointers copied into the caller's array are not part
\* of the program's state
\* a copy that stores every pattern, whatever the size of the caller's array
GetFilter_CopyAll(src, patterns, max_patterns) ==
    IF ~src.valid THEN [val |-> -EINVAL, out |-> patterns.at]
    ELSE IF ~src.filter_active THEN [val |-> 0, out |-> patterns.at]
    ELSE [val |-> src.num_filter_patterns,
          out |-> [p \in 1 .. Len(patterns.at) |->
                      IF p <= src.num_filter_patterns
                      THEN src.filter_patterns[p] ELSE patterns.at[p]]]

\* return value and caller's array after get_filter on the record src
GetFilter(src, patterns, max_patterns) ==
    IF ~src.valid THEN [val |-> -EINVAL, out |-> patterns.at]
    ELSE IF ~src.filter_active THEN [val |-> 0, out |-> patterns.at]
    ELSE [val |-> src.num_filter_patterns,
          out |-> [p \in 1 .. Len(patterns.at) |->
                      IF p <= Min(max_patterns, src.num_filter_patterns)
                      THEN src.filter_patterns[p] ELSE patterns.at[p]]]

\* the source handle is slot i of session s
rte_sampler_source_get_filter(s, i, patterns, max_patterns) ==
    /\ sess[s].alloc
    /\ i \in 1 .. sess[s].sources_capacity
    /\ ret' = [Ret("get_filter", s,
                   GetFilter(sess[s].sources[i], patterns, max_patterns).val)
                  EXCEPT !.out =
                      GetFilter(sess[s].sources[i], patterns,
                                max_patterns).out]
    /\ log' = <<>>
    /\ UNCHANGED <<sess, reg, now, hz, divz, width, rb, pc, xid, heap, adapters, failAt, regs>>

\* return value, source record and allocator state after set_filter on a valid
\* source with a non-empty pattern list
SetFilter(src, patterns, fa) ==
    LET n == Len(patterns)
        s1 == [src EXCEPT !.filter_patterns =
                    PatternsFreed(src.filter_patterns, src.num_filter_patterns)]
        grow == n > src.filter_patterns_capacity
    IN IF grow /\ AllocFails(fa)
       THEN [val |-> -ENOMEM, src |-> s1, fa |-> 0]
       ELSE
         LET s2 == IF grow
                   THEN [s1 EXCEPT !.filter_patterns = [i \in 1 .. n |-> NullStr],
                                   !.filter_patterns_capacity = n]
                   ELSE s1
             fa1 == IF grow THEN AfterAlloc(fa) ELSE fa
         IN IF fa1 \in 1 .. n
            THEN \* the copy of pattern number fa1 fails: clear what was copied
                 LET s3 == [s2 EXCEPT
                              !.filter_patterns =
                                  Overwrite(s2.filter_patterns,
                                            SubSeq(patterns, 1, fa1 - 1)),
                              !.num_filter_patterns = fa1 - 1]
                 IN [val |-> -ENOMEM, src |-> ClearedFilter(s3), fa |-> 0]
            ELSE LET s3 == [s2 EXCEPT
                              !.filter_patterns =
                                  Overwrite(s2.filter_patterns, patterns),
                              !.num_filter_patterns = n,
                              !.filter_active = TRUE]
                 IN [val |-> 0,
                     src |-> IF s3.xstats_count > 0 THEN apply_filter(s3) ELSE s3,
                     fa |-> IF fa1 > n THEN fa1 - n ELSE 0]

\* patterns = <<>> stands for a NULL pattern array or num_patterns = 0
rte_sampler_source_set_filter(s, i, patterns) ==
    /\ sess[s].alloc
    /\ i \in 1 .. sess[s].sources_capacity
    /\ IF ~sess[s].sources[i].valid \/ patterns = <<>>
       THEN /\ ret' = Ret("set_filter", s, -EINVAL)
            /\ UNCHANGED <<sess, failAt>>
       ELSE LET r == SetFilter(sess[s].sources[i], patterns, failAt)
            IN /\ sess' = [sess EXCEPT ![s].sources[i] = r.src]
               /\ failAt' = r.fa
               /\ ret' = Ret("set_filter", s, r.val)
    /\ log' = <<>>
    /\ UNCHANGED <<reg, now, hz, divz, width, rb, pc, xid, heap, adapters, regs>>

(***************************************************************************)
(* rte_sampler_sample                                                      *)
(***************************************************************************)
\* one adapter callback as recorded in the log
Ev(kind, s, src, sink, names_null, names, ids, values, n, rc) ==
    [kind |-> kind, sess |-> s, src |-> src.name, source_id |-> src.source_id,
     sink |-> sink, names_null |-> names_null, names |-> names, ids |-> ids,
     values |-> values, n |-> n, rc |-> rc]

\* lines 484-564: name discovery of an uncached source.
\* go says whether the pass continues with this source.
Discover(s, src, lg, fa) ==
    LET k == src.source_id
        q == AdapterNamesSize(k)
        lg1 == Append(lg, Ev("names_get", s, src, 0, TRUE, <<>>, <<>>, <<>>, 0, q))
    IN IF q <= 0
       THEN [src |-> src, log |-> lg1, fa |-> fa, go |-> FALSE]
       ELSE
       LET s1 == [src EXCEPT !.xstats_capacity = q]
           fa1 == AfterAlloc(fa)
           fa2 == AfterAlloc(fa1)
           fa3 == AfterAlloc(fa2)
           fa4 == AfterAlloc(fa3)
       IN IF AllocFails(fa)
          THEN [src |-> [s1 EXCEPT !.xstats_names = <<>>],
                log |-> lg1, fa |-> 0, go |-> FALSE]
          ELSE IF AllocFails(fa1)
          THEN [src |-> [s1 EXCEPT !.xstats_names = <<>>, !.ids = <<>>],
                log |-> lg1, fa |-> 0, go |-> FALSE]
          ELSE IF AllocFails(fa2)
          THEN [src |-> [s1 EXCEPT !.xstats_names = <<>>, !.ids = <<>>,
                                   !.values = <<>>],
                log |-> lg1, fa |-> 0, go |-> FALSE]
          ELSE IF AllocFails(fa3)
          THEN [src |-> [s1 EXCEPT !.xstats_names = <<>>, !.ids = <<>>,
                                   !.values = <<>>, !.filtered_ids = <<>>],
                log |-> lg1, fa |-> 0, go |-> FALSE]
          ELSE
          LET r == AdapterNamesFill(k, s1.xstats_capacity)
              lg2 == Append(lg1, Ev("names_get", s, src, 0, FALSE, <<>>, <<>>,
                                    <<>>, s1.xstats_capacity, r))
          IN IF r < 0
             THEN [src |-> [s1 EXCEPT !.xstats_names = <<>>, !.ids = <<>>,
                                      !.values = <<>>, !.filtered_ids = <<>>,
                                      !.xstats_capacity = 0],
                   log |-> lg2, fa |-> fa4, go |-> FALSE]
             ELSE [src |-> apply_filter(
                        [s1 EXCEPT
                            !.xstats_names = FilledNames(k, EmptyNames(q), q),
                            !.ids = FilledIds(k, Zeros(q), q),
                            !.values = Zeros(q),
                            !.filtered_ids = Zeros(q),
                            !.xstats_count = r]),
                   log |-> lg2, fa |-> fa4, go |-> TRUE]

\* a fetch whose return value is not checked
Fetch_IgnoreError(s, src, lg) ==
    IF src.filtered_count > 0
    THEN LET k == src.source_id
             r == AdapterGet(k, src.filtered_count)
             lg1 == Append(lg, Ev("xstats_get", s, src, 0, TRUE, <<>>,
                                  src.filtered_ids, <<>>, src.filtered_count, r))
         IN [src |-> [src EXCEPT !.values =
                          FetchedValues(k, src.filtered_ids, src.values,
                                        src.filtered_count)],
             log |-> lg1, go |-> TRUE]
    ELSE [src |-> src, log |-> lg, go |-> TRUE]

\* a pass that goes to the next source when no id passes the filter
Fetch_SkipEmpty(s, src, lg) ==
    IF src.filtered_count > 0
    THEN LET k == src.source_id
             r == AdapterGet(k, src.filtered_count)
             lg1 == Append(lg, Ev("xstats_get", s, src, 0, TRUE, <<>>,
                                  src.filtered_ids, <<>>, src.filtered_count, r))
         IN [src |-> [src EXCEPT !.values =
                          FetchedValues(k, src.filtered_ids, src.values,
                                        src.filtered_count)],
             log |-> lg1, go |-> r >= 0]
    ELSE [src |-> src, log |-> lg, go |-> FALSE]

\* lines 566-576: fetch the values of the filtered ids
Fetch(s, src, lg) ==
    IF src.filtered_count > 0
    THEN LET k == src.source_id
             r == AdapterGet(k, src.filtered_count)
             lg1 == Append(lg, Ev("xstats_get", s, src, 0, TRUE, <<>>,
                                  src.filtered_ids, <<>>, src.filtered_count, r))
         IN [src |-> [src EXCEPT !.values =
                          FetchedValues(k, src.filtered_ids, src.values,
                                        src.filtered_count)],
             log |-> lg1, go |-> r >= 0]
    ELSE [src |-> src, log |-> lg, go |-> TRUE]

\* the return value of a sink's output callback
SinkOutput(sink) == IF sink.ops.output = "fail" THEN -1 ELSE 0

\* the names pointer without the flag test
NamesToPass_Always(sink, src) ==
    [null |-> FALSE, names |-> src.xstats_names]

\* lines 586-590: the names pointer handed to a sink
NamesToPass(sink, src) ==
    IF HasFlag(sink.ops.flags, RTE_SAMPLER_SINK_F_NO_NAMES)
    THEN [null |-> TRUE, names |-> <<>>]
    ELSE [null |-> FALSE, names |-> src.xstats_names]

\* a fan-out that stops at the first sink that returns an error
RECURSIVE FanOut_StopOnError(_, _, _, _, _)
FanOut_StopOnError(S, s, src, j, lg) ==
    IF j > S.num_sinks THEN lg
    ELSE LET sink == S.sinks[j]
             lg1 == Append(lg, Ev("output", s, src, sink.name,
                                  NamesToPass(sink, src).null,
                                  NamesToPass(sink, src).names,
                                  src.filtered_ids, src.values,
                                  src.filtered_count, SinkOutput(sink)))
         IN IF ~sink.valid
            THEN FanOut_StopOnError(S, s, src, j + 1, lg)
            ELSE IF SinkOutput(sink) < 0
            THEN lg1
            ELSE FanOut_StopOnError(S, s, src, j + 1, lg1)

\* a fan-out that does not skip the records that are not valid
RECURSIVE FanOut_IgnoreValid(_, _, _, _, _)
FanOut_IgnoreValid(S, s, src, j, lg) ==
    IF j > S.num_sinks THEN lg
    ELSE FanOut_IgnoreValid(S, s, src, j + 1,
            Append(lg, Ev("output", s, src, S.sinks[j].name,
                          NamesToPass(S.sinks[j], src).null,
                          NamesToPass(S.sinks[j], src).names,
                          src.filtered_ids, src.values,
                          src.filtered_count, SinkOutput(S.sinks[j]))))

\* lines 578-604: send one source's data to sinks j .. num_sinks
RECURSIVE FanOut(_, _, _, _, _)
FanOut(S, s, src, j, lg) ==
    IF j > S.num_sinks THEN lg
    ELSE LET sink == S.sinks[j]
         IN IF ~sink.valid
            THEN FanOut(S, s, src, j + 1, lg)
            ELSE FanOut(S, s, src, j + 1,
                    Append(lg, Ev("output", s, src, sink.name,
                                  NamesToPass(sink, src).null,
                                  NamesToPass(sink, src).names,
                                  src.filtered_ids, src.values,
                                  src.filtered_count, SinkOutput(sink))))

\* lines 578-604 after a fetch f: fan out unless the fetch failed
AfterFetch(S, s, fa, f) ==
    IF ~f.go
    THEN [src |-> f.src, log |-> f.log, fa |-> fa]
    ELSE [src |-> f.src, log |-> FanOut(S, s, f.src, 1, f.log), fa |-> fa]

\* lines 566-604 after a discovery d: fetch unless the discovery failed
AfterDiscover(S, s, d) ==
    IF ~d.go
    THEN [src |-> d.src, log |-> d.log, fa |-> d.fa]
    ELSE AfterFetch(S, s, d.fa, Fetch(s, d.src, d.log))

\* a pass that runs the name discovery whether or not the source is cached
SampleSource_Rediscover(S, s, src, lg, fa) ==
    AfterDiscover(S, s, Discover(s, src, lg, fa))

\* the body of the loop over the sources for one valid source
SampleSource(S, s, src, lg, fa) ==
    AfterDiscover(S, s,
        IF src.xstats_count = 0
        THEN Discover(s, src, lg, fa)
        ELSE [src |-> src, log |-> lg, fa |-> fa, go |-> TRUE])

\* the loop state st = [sources, log, fa] after source i gave r
AfterSource(st, i, r) ==
    [sources |-> [st.sources EXCEPT ![i] = r.src], log |-> r.log, fa |-> r.fa]

\* the loop over sources i .. num_sources
RECURSIVE SampleFrom(_, _, _, _)
SampleFrom(S, s, i, st) ==
    IF i > S.num_sources THEN st
    ELSE SampleFrom(S, s, i + 1,
            IF ~st.sources[i].valid
            THEN st
            ELSE AfterSource(st, i,
                    SampleSource(S, s, st.sources[i], st.log, st.fa)))

\* the output calls of log lg made for session s to the sink named m
CallsTo(lg, s, m) ==
    Len(SelectSeq(lg, LAMBDA e : e.kind = "output" /\ e.sess = s /\ e.sink = m))

\* the sinks after a pass: a counting sink has added the calls it received
Counted(sinks, s, lg) ==
    [j \in 1 .. Len(sinks) |->
        IF sinks[j].valid /\ sinks[j].ops.output = "count"
        THEN [sinks[j] EXCEPT !.user_data = @ + CallsTo(lg, s, sinks[j].name)]
        ELSE sinks[j]]

\* line 608: the session block after the loop ended in st
PassResult(S, s, st) ==
    [S |-> [S EXCEPT !.sources = st.sources,
                     !.sinks = Counted(S.sinks, s, st.log),
                     !.last_sample_time = now],
     log |-> st.log, fa |-> st.fa]

\* a sampling pass over the valid session block S at address s
SamplePass(S, s, lg, fa) ==
    PassResult(S, s, SampleFrom(S, s, 1,
                    [sources |-> S.sources, log |-> lg, fa |-> fa]))

\* the effect of a pass with result r on the session at s
Sampled(s, r) ==
    /\ sess' = [sess EXCEPT ![s] = r.S]
    /\ log' = r.log
    /\ failAt' = r.fa
    /\ ret' = Ret("sample", s, 0)

rte_sampler_sample(s) ==
    /\ Addressable(s)
    /\ IF s = 0 \/ ~sess[s].valid
       THEN /\ ret' = Ret("sample", s, -EINVAL)
            /\ log' = <<>>
            /\ UNCHANGED <<sess, failAt>>
       ELSE Sampled(s, SamplePass(sess[s], s, <<>>, failAt))
    /\ UNCHANGED <<reg, now, hz, divz, width, rb, pc, xid, heap, adapters, regs>>

(***************************************************************************)
(* rte_sampler_poll                                                        *)
(***************************************************************************)
\* st = [sess, log, fa, polled, sampled, trap] is the state of the poll loop;
\* trap says that a division has stopped the process
\* lines 639-642: the session at s has been sampled with result r
PollSampled(st, s, r) ==
    [sess |-> [st.sess EXCEPT ![s] = r.S],
     log |-> r.log, fa |-> r.fa,
     polled |-> st.polled + 1,
     sampled |-> Append(st.sampled, s),
     trap |-> FALSE]

\* lines 627-643: a valid session at s for which is_active gave a
PollSession(st, s, a) ==
    IF a.val = 0
    THEN [st EXCEPT !.sess[s] = a.S]
    ELSE IF a.S.sample_interval_ms = 0
    THEN [st EXCEPT !.sess[s] = a.S]
    ELSE IF DivTraps
    THEN [st EXCEPT !.sess[s] = a.S, !.trap = TRUE]
    ELSE IF ElapsedMs(now, a.S.last_sample_time) >= a.S.sample_interval_ms
    THEN PollSampled(st, s, SamplePass(a.S, s, st.log, st.fa))
    ELSE [st EXCEPT !.sess[s] = a.S]

\* lines 622-643: one registry slot holding s
PollVisit(st, s) ==
    IF st.trap
    THEN st
    ELSE IF s = 0 \/ ~st.sess[s].valid
    THEN st
    ELSE IF DivTraps /\ IsActiveDivides(st.sess[s])
    THEN [st EXCEPT !.trap = TRUE]
    ELSE PollSession(st, s, IsActive(st.sess[s]))

\* the loop over registry slots i .. num_sessions
RECURSIVE PollFrom(_, _)
PollFrom(i, st) ==
    IF i > reg.num_sessions THEN st
    ELSE LET v == PollVisit(st, reg.sessions[i])
         IN CASE v.polled \in Nat -> PollFrom(i + 1, v)

\* the effect of a poll whose loop ended in st
Polled(st) ==
    /\ sess' = st.sess
    /\ log' = st.log
    /\ failAt' = st.fa
    /\ ret' = [Ret(IF st.trap THEN "SIGFPE" ELSE "poll", 0, st.polled)
                  EXCEPT !.sampled = st.sampled]

rte_sampler_poll ==
    /\ Polled(PollFrom(1, [sess |-> sess, log |-> <<>>, fa |-> failAt,
                           polled |-> 0, sampled |-> <<>>,
                           trap |-> FALSE]))
    /\ UNCHANGED <<reg, now, hz, divz, width, rb, pc, xid, heap, adapters, regs>>

(***************************************************************************)
(* rte_sampler_xstats_names_get / rte_sampler_xstats_get                   *)
(***************************************************************************)
\* a test that accepts the valid sources of every session
SourceNotOf_AnySession(s, src) == ~src.valid

\* lines 663, 712 and 768: the source record is not a source of session s
SourceNotOf(s, src) == ~src.valid \/ src.session # s

\* the cached names (values) of the valid sources in slots i .. num_sources
\* of S, one source after the other
RECURSIVE AllNames(_, _)
AllNames(S, i) ==
    IF i > S.num_sources THEN <<>>
    ELSE IF ~S.sources[i].valid THEN AllNames(S, i + 1)
    ELSE [j \in 1 .. S.sources[i].xstats_count |->
             NameAt(S.sources[i].xstats_names, j)] \o AllNames(S, i + 1)

RECURSIVE AllValues(_, _)
AllValues(S, i) ==
    IF i > S.num_sources THEN <<>>
    ELSE IF ~S.sources[i].valid THEN AllValues(S, i + 1)
    ELSE [j \in 1 .. S.sources[i].xstats_count |->
             WordAt(S.sources[i].values, j)] \o AllValues(S, i + 1)

\* the caller's array arr after its first k slots were written from from
Copied(arr, from, k) ==
    [p \in 1 .. Len(arr) |-> IF p <= k THEN from[p] ELSE arr[p]]

\* lines 662-673: the names of one source
NamesGetOne(src, names, size) ==
    IF names.null
    THEN [val |-> src.xstats_count, out |-> <<>>]
    ELSE [val |-> Min(src.xstats_count, size),
          out |-> [p \in 1 .. Len(names.at) |->
                      IF p <= Min(src.xstats_count, size)
                      THEN NameAt(src.xstats_names, p) ELSE names.at[p]]]

\* lines 676-692: the names of all valid sources
NamesGetAll(S, names, size) ==
    [val |-> Len(AllNames(S, 1)),
     out |-> IF names.null THEN <<>>
             ELSE Copied(names.at, AllNames(S, 1),
                         Min(Len(AllNames(S, 1)), size))]

\* the source handle is slot i of session o; i = 0 is the NULL source
rte_sampler_xstats_names_get(s, o, i, names, size) ==
    /\ Addressable(s)
    /\ IF i = 0 THEN TRUE
       ELSE sess[o].alloc /\ i \in 1 .. sess[o].sources_capacity
    /\ ret' =
          IF s = 0 \/ ~sess[s].valid
          THEN Ret("xstats_names_get", s, -EINVAL)
          ELSE IF i # 0
          THEN IF SourceNotOf(s, sess[o].sources[i])
               THEN Ret("xstats_names_get", s, -EINVAL)
               ELSE [Ret("xstats_names_get", s,
                         NamesGetOne(sess[o].sources[i], names, size).val)
                        EXCEPT !.out =
                            NamesGetOne(sess[o].sources[i], names, size).out]
          ELSE [Ret("xstats_names_get", s,
                    NamesGetAll(sess[s], names, size).val)
                   EXCEPT !.out = NamesGetAll(sess[s], names, size).out]
    /\ log' = <<>>
    /\ UNCHANGED <<sess, reg, now, hz, divz, width, rb, pc, xid, heap, adapters, failAt, regs>>

\* lines 728-736: the position in the cached ids of the first one equal to
\* id, 0 if there is none
CachedAt(src, id) ==
    IF \E j \in 1 .. src.xstats_count : WordAt(src.ids, j) = id
    THEN CHOOSE j \in 1 .. src.xstats_count :
            /\ WordAt(src.ids, j) = id
            /\ \A h \in 1 .. j - 1 : WordAt(src.ids, h) # id
    ELSE 0

\* lines 716-739: the values of one source
ValuesGetOne(src, ids, values, n) ==
    IF ids.null
    THEN [val |-> Min(src.xstats_count, n),
          out |-> [p \in 1 .. Len(values.at) |->
                      IF p <= Min(src.xstats_count, n)
                      THEN WordAt(src.values, p) ELSE values.at[p]]]
    ELSE [val |-> n,
          out |-> [p \in 1 .. Len(values.at) |->
                      IF p <= n /\ CachedAt(src, WordAt(ids.at, p)) # 0
                      THEN WordAt(src.values,
                                  CachedAt(src, WordAt(ids.at, p)))
                      ELSE values.at[p]]]

\* lines 741-751: the values of all valid sources
ValuesGetAll(S, values, n) ==
    [val |-> Min(Len(AllValues(S, 1)), n),
     out |-> Copied(values.at, AllValues(S, 1),
                    Min(Len(AllValues(S, 1)), n))]

\* the source handle is slot i of session o; i = 0 is the NULL source
rte_sampler_xstats_get(s, o, i, ids, values, n) ==
    /\ Addressable(s)
    /\ IF i = 0 THEN TRUE
       ELSE sess[o].alloc /\ i \in 1 .. sess[o].sources_capacity
    /\ ret' =
          IF s = 0 \/ ~sess[s].valid \/ values.null
          THEN Ret("xstats_get", s, -EINVAL)
          ELSE IF i # 0
          THEN IF SourceNotOf(s, sess[o].sources[i])
               THEN [Ret("xstats_get", s, -EINVAL) EXCEPT !.out = values.at]
               ELSE [Ret("xstats_get", s,
                         ValuesGetOne(sess[o].sources[i], ids, values, n).val)
                        EXCEPT !.out =
                            ValuesGetOne(sess[o].sources[i], ids, values,
                                         n).out]
          ELSE [Ret("xstats_get", s, ValuesGetAll(sess[s], values, n).val)
                   EXCEPT !.out = ValuesGetAll(sess[s], values, n).out]
    /\ log' = <<>>
    /\ UNCHANGED <<sess, reg, now, hz, divz, width, rb, pc, xid, heap, adapters, failAt, regs>>

(***************************************************************************)
(* rte_sampler_xstats_reset                                                *)
(***************************************************************************)
\* lines 782-783, 805-806: the cached values of a source are cleared
ValuesCleared(src) ==
    IF src.values # <<>> /\ src.xstats_capacity > 0
    THEN [src EXCEPT !.values =
            [i \in 1 .. Len(src.values) |->
                IF i <= src.xstats_capacity THEN 0 ELSE src.values[i]]]
    ELSE src

\* the log after the reset callback of src, if it has one
ResetCall(s, src, ids, n, lg) ==
    IF src.ops.xstats_reset
    THEN Append(lg, Ev("xstats_reset", s, src, 0, TRUE, <<>>, ids, <<>>, n,
                       AdapterReset(src.source_id)))
    ELSE lg

\* lines 791-807: the loop over sources i .. num_sources; st = [sources, log]
RECURSIVE ResetFrom(_, _, _, _, _)
ResetFrom(S, s, ids, n, st) ==
    IF st.i > S.num_sources THEN st
    ELSE ResetFrom(S, s, ids, n,
            IF ~st.sources[st.i].valid
            THEN [st EXCEPT !.i = @ + 1]
            ELSE [i |-> st.i + 1,
                  sources |-> [st.sources EXCEPT ![st.i] = ValuesCleared(@)],
                  log |-> ResetCall(s, st.sources[st.i], ids, n, st.log)])

\* the effect of a reset of all sources that ended in st
ResetAll(s, st) ==
    /\ sess' = [sess EXCEPT ![s].sources = st.sources]
    /\ log' = st.log
    /\ ret' = Ret("xstats_reset", s, 0)

\* lines 768-786: the reset of the one source in slot i of session o
ResetOne(s, o, i, ids, n) ==
    IF SourceNotOf(s, sess[o].sources[i])
    THEN /\ ret' = Ret("xstats_reset", s, -EINVAL)
         /\ log' = <<>>
         /\ UNCHANGED sess
    ELSE /\ log' = ResetCall(s, sess[o].sources[i], ids, n, <<>>)
         /\ IF sess[o].sources[i].ops.xstats_reset
               /\ AdapterReset(sess[o].sources[i].source_id) < 0
            THEN /\ ret' = Ret("xstats_reset", s,
                               AdapterReset(sess[o].sources[i].source_id))
                 /\ UNCHANGED sess
            ELSE /\ ret' = Ret("xstats_reset", s, 0)
                 /\ sess' = [sess EXCEPT ![o].sources[i] = ValuesCleared(@)]

\* the source handle is slot i of session o; i = 0 is the NULL source
rte_sampler_xstats_reset(s, o, i, ids, n) ==
    /\ Addressable(s)
    /\ IF i = 0 THEN TRUE
       ELSE sess[o].alloc /\ i \in 1 .. sess[o].sources_capacity
    /\ IF s = 0 \/ ~sess[s].valid
       THEN /\ ret' = Ret("xstats_reset", s, -EINVAL)
            /\ log' = <<>>
            /\ UNCHANGED sess
       ELSE IF i # 0
       THEN ResetOne(s, o, i, ids, n)
       ELSE ResetAll(s, ResetFrom(sess[s], s, ids, n,
                        [i |-> 1, sources |-> sess[s].sources, log |-> <<>>]))
    /\ UNCHANGED <<reg, now, hz, divz, width, rb, pc, xid, heap, adapters, failAt, regs>>

(***************************************************************************)
(* The environment: the clock and the adapters                             *)
(***************************************************************************)
\* the cycle counter advances by d between two library calls
Advance(d) ==
    /\ now' = now + d
    /\ ret' = Ret("env", 0, 0)
    /\ log' = <<>>
    /\ UNCHANGED <<sess, reg, hz, divz, width, rb, pc, xid, heap, adapters, failAt, regs>>

\* time passes between two library calls
Tick(d) ==
    /\ now + d <= MaxClock
    /\ Advance(d)

\* an adapter gets more or fewer stats: its answers to the size query and
\* to the fill call become a and f
SetAdapterCounts(k, a, f) ==
    /\ adapters[k].adv # a \/ adapters[k].fill # f
    /\ adapters' = [adapters EXCEPT ![k].adv = a, ![k].fill = f]
    /\ ret' = Ret("env", 0, 0)
    /\ log' = <<>>
    /\ UNCHANGED <<sess, reg, now, hz, divz, width, rb, pc, xid, heap, failAt, regs>>

\* the heap behind the arrays changes
SetHeap(h) ==
    /\ heap # h
    /\ heap' = h
    /\ ret' = Ret("env", 0, 0)
    /\ log' = <<>>
    /\ UNCHANGED <<sess, reg, now, hz, divz, width, rb, pc, xid, adapters, failAt, regs>>

\* the k-th allocation from now on fails
SetFailAt(k) ==
    /\ failAt = 0
    /\ failAt' = k
    /\ ret' = Ret("env", 0, 0)
    /\ log' = <<>>
    /\ UNCHANGED <<sess, reg, now, hz, divz, width, rb, pc, xid, heap, adapters, regs>>

\* an adapter starts or stops failing one of its callbacks
SetAdapterMode(k, m) ==
    /\ adapters[k].mode # m
    /\ adapters' = [adapters EXCEPT ![k].mode = m]
    /\ ret' = Ret("env", 0, 0)
    /\ log' = <<>>
    /\ UNCHANGED <<sess, reg, now, hz, divz, width, rb, pc, xid, heap, failAt, regs>>

(***************************************************************************)
(* The ring buffer sink (rte_sampler_sink_ringbuffer.c).  rb is the one    *)
(* struct ringbuffer_sink_data of the model with its slot of               *)
(* ringbuffer_registry; slot pos of the C array entries is entries[pos+1]. *)
(* ids_at and values_at say what the pointers of an entry refer to: "null",*)
(* "live" (allocated) or "freed" (released storage).                       *)
(***************************************************************************)
\* a sink handle: record j of the sink array of session s; NULL is NoSinkRef
SinkRef(s, j) == [s |-> s, j |-> j]
NoSinkRef == SinkRef(0, 0)

\* an entry of the zeroed array of lines 197-199
ZeroEntry ==
    [valid |-> FALSE, timestamp |-> 0, source |-> 0, source_id |-> 0,
     num_stats |-> 0, ids |-> <<>>, values |-> <<>>,
     ids_at |-> "null", values_at |-> "null"]

\* no ring buffer: nothing allocated, the registry slot empty
NoRing ==
    [alloc |-> FALSE, sink |-> NoSinkRef, max_entries |-> 0, head |-> 0,
     tail |-> 0, count |-> 0, entries |-> <<>>, lock |-> "free",
     fault |-> "none"]

\* the process has been stopped by a fault
RingDead == rb.fault # "none"

\* what this build does when rte_free is given released storage
DoubleFreeOutcomes == {"ignored", "abort"}
\* what a read of released storage finds
FreedReadOutcomes == {"stale", "garbage"}

\* rte_malloc of n words: NULL for a request of size 0 and when the
\* allocator fails
NoMem(n, fa) == n = 0 \/ AllocFails(fa)
Asked(n, fa) == IF n = 0 THEN fa ELSE AfterAlloc(fa)

\* rte_free(p): what the pointer refers to afterwards
Released(at) == IF at = "null" THEN "null" ELSE "freed"

\* lines 136-139, 316-319, 348-351: rte_free is given released storage
FreesTwice(e) == e.valid /\ (e.ids_at = "freed" \/ e.values_at = "freed")

\* lines 88-106: find_sink_data
find_sink_data(sink) == sink # NoSinkRef /\ rb.sink = sink

\* an advance that leaves the tail where it is when the buffer is full
Advanced_KeepTail(D) ==
    [D EXCEPT !.head = (D.head + 1) % D.max_entries,
              !.count = IF D.count < D.max_entries THEN D.count + 1
                        ELSE D.count]

\* lines 161-170: head, count and tail after an entry has been filled
Advanced(D) ==
    [D EXCEPT !.head = (D.head + 1) % D.max_entries,
              !.count = IF D.count < D.max_entries THEN D.count + 1
                        ELSE D.count,
              !.tail = IF D.count < D.max_entries THEN D.tail
                       ELSE (D.tail + 1) % D.max_entries]

\* lines 152-159: the entry filled from the sample smp
Filled(smp) ==
    [valid |-> TRUE, timestamp |-> now, source |-> smp.src,
     source_id |-> smp.source_id, num_stats |-> smp.n,
     ids |-> SubSeq(smp.ids, 1, smp.n),
     values |-> SubSeq(smp.values, 1, smp.n),
     ids_at |-> "live", values_at |-> "live"]

\* lines 135-159: the entry at the write position after a call for smp;
\* the old arrays are released first, then the new ones are requested
Overwritten(e, smp, fa) ==
    IF NoMem(smp.n, fa) \/ NoMem(smp.n, Asked(smp.n, fa))
    THEN [e EXCEPT !.ids_at = IF NoMem(smp.n, fa) THEN "null" ELSE "freed",
                   !.values_at = IF NoMem(smp.n, Asked(smp.n, fa))
                                 THEN "null" ELSE "freed"]
    ELSE Filled(smp)

\* lines 111-175: ringbuffer_sink_output on the data block D; u is the
\* outcome of a second release
Output(D, smp, fa, u) ==
    LET pos == D.head + 1
        e == D.entries[pos]
        fa2 == Asked(smp.n, Asked(smp.n, fa))
    IN IF FreesTwice(e) /\ u = "abort"
       THEN [D |-> [D EXCEPT !.fault = "abort"], fa |-> fa, val |-> Trap]
       ELSE IF NoMem(smp.n, fa) \/ NoMem(smp.n, Asked(smp.n, fa))
       THEN [D |-> [D EXCEPT !.entries[pos] = Overwritten(e, smp, fa)],
             fa |-> fa2, val |-> -ENOMEM]
       ELSE [D |-> Advanced([D EXCEPT !.entries[pos] =
                                          Overwritten(e, smp, fa)]),
             fa |-> fa2, val |-> 0]

\* an entry of the caller's array that no call has written
UnsetEntry ==
    [set |-> FALSE, timestamp |-> 0, source |-> 0, source_id |-> 0,
     num_stats |-> 0, ids |-> NullArr, values |-> NullArr]

\* what memcpy finds behind a pointer of a stored entry
StoredWords(at, words, u) ==
    IF at = "live" \/ u = "stale" THEN words
    ELSE [i \in 1 .. Len(words) |-> heap.word]

\* lines 275-293: the caller's entry written from the stored entry e; the
\* arrays are copied only when both allocations succeed
ReadEntry(e, fa, u) ==
    LET n == e.num_stats
        idsNull == NoMem(n, fa)
        valuesNull == NoMem(n, Asked(n, fa))
        fresh == [i \in 1 .. n |-> heap.word]
    IN [set |-> TRUE, timestamp |-> e.timestamp, source |-> e.source,
        source_id |-> e.source_id, num_stats |-> n,
        ids |-> IF idsNull THEN NullArr
                ELSE IF valuesNull THEN Arr(fresh)
                ELSE Arr(StoredWords(e.ids_at, e.ids, u)),
        values |-> IF valuesNull THEN NullArr
                   ELSE IF idsNull THEN Arr(fresh)
                   ELSE Arr(StoredWords(e.values_at, e.values, u))]

\* memcpy of lines 288-293 reads through a NULL pointer
ReadsNull(e, fa) ==
    /\ e.valid
    /\ e.num_stats > 0
    /\ ~NoMem(e.num_stats, fa)
    /\ ~NoMem(e.num_stats, Asked(e.num_stats, fa))
    /\ (e.ids_at = "null" \/ e.values_at = "null")

\* lines 271-294: the loop from i on; st = [out, fa, segv]
RECURSIVE ReadFrom(_, _, _, _, _)
ReadFrom(D, i, num_read, st, u) ==
    IF i >= num_read \/ st.segv THEN st
    ELSE LET e == D.entries[((D.tail + i) % D.max_entries) + 1]
             nx == IF ~e.valid THEN st
                   ELSE IF ReadsNull(e, st.fa)
                   THEN [st EXCEPT !.segv = TRUE]
                   ELSE [out |-> [st.out EXCEPT ![i + 1] =
                                     ReadEntry(e, st.fa, u)],
                         fa |-> Asked(e.num_stats,
                                      Asked(e.num_stats, st.fa)),
                         segv |-> FALSE]
         IN ReadFrom(D, i + 1, num_read, nx, u)

\* lines 267-298: rte_sampler_sink_ringbuffer_read on the data block D
Read(D, entries, max_entries, fa, u) ==
    LET num_read == Min(max_entries, D.count)
    IN [num_read |-> num_read]
       @@ ReadFrom(D, 0, num_read,
                   [out |-> entries, fa |-> fa, segv |-> FALSE], u)

\* lines 314-325: every valid entry released and marked not valid
Cleared(D) ==
    [D EXCEPT !.entries = [p \in 1 .. Len(D.entries) |->
                              IF D.entries[p].valid
                              THEN [D.entries[p] EXCEPT
                                       !.valid = FALSE,
                                       !.ids_at = Released(@),
                                       !.values_at = Released(@)]
                              ELSE D.entries[p]],
              !.head = 0, !.tail = 0, !.count = 0]

\* some valid entry of D has its storage released a second time
AnyFreesTwice(D) == \E p \in 1 .. Len(D.entries) : FreesTwice(D.entries[p])

\* the effect on the session of rte_sampler_sink_register called with the
\* output callback of the ring buffer; fa is the allocator after the two
\* allocations of the data block
RingSinkRecord(s, name) ==
    [ZeroSink EXCEPT !.session = s, !.name = name,
                     !.ops = [output |-> "ring",
                              flags |-> RTE_SAMPLER_SINK_F_NO_NAMES],
                     !.user_data = 1,
                     !.valid = TRUE]

\* lines 177-232: rte_sampler_sink_ringbuffer_create
rte_sampler_sink_ringbuffer_create(s, name, conf) ==
    /\ Addressable(s)
    /\ ~rb.alloc
    /\ LET fa2 == AfterAlloc(AfterAlloc(failAt))
           S == sess[s]
           free == FirstFreeRecord(S.sinks)
           grow == free = 0
           i == IF grow THEN S.sinks_capacity + 1 ELSE free
           arr == IF grow THEN Doubled(S.sinks, ZeroSink) ELSE S.sinks
       IN IF s = 0 \/ name = 0 \/ conf.max_entries = 0
          THEN /\ ret' = Ret("ringbuffer_create", s, 0)
               /\ UNCHANGED <<sess, rb, failAt, regs>>
          ELSE IF AllocFails(failAt) \/ AllocFails(AfterAlloc(failAt))
          THEN /\ ret' = Ret("ringbuffer_create", s, 0)
               /\ failAt' = 0
               /\ UNCHANGED <<sess, rb, regs>>
          ELSE IF ~S.valid
          THEN /\ ret' = Ret("ringbuffer_create", s, 0)
               /\ failAt' = fa2
               /\ UNCHANGED <<sess, rb, regs>>
          ELSE IF grow /\ AllocFails(fa2)
          THEN /\ ret' = Ret("ringbuffer_create", s, 0)
               /\ failAt' = 0
               /\ UNCHANGED <<sess, rb, regs>>
          ELSE /\ sess' = [sess EXCEPT
                     ![s].sinks = [arr EXCEPT ![i] = RingSinkRecord(s, name)],
                     ![s].sinks_capacity = Len(arr),
                     ![s].num_sinks =
                         IF i - 1 >= S.num_sinks THEN i ELSE S.num_sinks]
               /\ failAt' = IF grow THEN AfterAlloc(fa2) ELSE fa2
               /\ regs' = [regs EXCEPT ![s].snk = @ + 1]
               /\ rb' = [NoRing EXCEPT
                            !.alloc = TRUE,
                            !.sink = SinkRef(s, i),
                            !.max_entries = conf.max_entries,
                            !.entries = [p \in 1 .. conf.max_entries |->
                                            ZeroEntry]]
               /\ ret' = Ret("ringbuffer_create", s, i)
    /\ log' = <<>>
    /\ UNCHANGED <<reg, now, hz, divz, width, pc, xid, heap, adapters>>

\* ringbuffer_sink_output as the sampling pass calls it for the sample smp
\* with user_data = the data block
ringbuffer_sink_output(smp, u) ==
    /\ rb.alloc
    /\ ~RingDead
    /\ LET r == Output(rb, smp, failAt, u)
       IN /\ rb' = r.D
          /\ failAt' = r.fa
          /\ ret' = IF r.val = Trap THEN Ret("SIGABRT", 0, 0)
                    ELSE Ret("ringbuffer_output", 0, r.val)
    /\ log' = <<>>
    /\ UNCHANGED <<sess, reg, now, hz, divz, width, pc, xid, heap, adapters, regs>>

\* lines 236-252
rte_sampler_sink_ringbuffer_count(sink) ==
    /\ ~RingDead
    /\ ret' = Ret("ringbuffer_count", sink.s,
                  IF find_sink_data(sink) THEN rb.count ELSE -EINVAL)
    /\ log' = <<>>
    /\ UNCHANGED <<sess, reg, now, hz, divz, width, rb, pc, xid, heap, adapters,
                   failAt, regs>>

\* lines 254-299; entries is the caller's array
rte_sampler_sink_ringbuffer_read(sink, entries, max_entries, u) ==
    /\ ~RingDead
    /\ IF ~find_sink_data(sink) \/ entries.null
       THEN /\ ret' = Ret("ringbuffer_read", sink.s, -EINVAL)
            /\ UNCHANGED <<rb, failAt>>
       ELSE LET r == Read(rb, entries.at, max_entries, failAt, u)
            IN IF r.segv
               THEN /\ ret' = Ret("SIGSEGV", 0, 0)
                    /\ rb' = [rb EXCEPT !.fault = "SIGSEGV"]
                    /\ failAt' = r.fa
               ELSE /\ ret' = [Ret("ringbuffer_read", sink.s, r.num_read)
                                  EXCEPT !.out = r.out]
                    /\ failAt' = r.fa
                    /\ UNCHANGED rb
    /\ log' = <<>>
    /\ UNCHANGED <<sess, reg, now, hz, divz, width, pc, xid, heap, adapters, regs>>

\* lines 301-330
rte_sampler_sink_ringbuffer_clear(sink, u) ==
    /\ ~RingDead
    /\ IF ~find_sink_data(sink)
       THEN /\ ret' = Ret("ringbuffer_clear", sink.s, -EINVAL)
            /\ UNCHANGED rb
       ELSE IF AnyFreesTwice(rb) /\ u = "abort"
       THEN /\ ret' = Ret("SIGABRT", 0, 0)
            /\ rb' = [rb EXCEPT !.fault = "abort"]
       ELSE /\ ret' = Ret("ringbuffer_clear", sink.s, 0)
            /\ rb' = Cleared(rb)
    /\ log' = <<>>
    /\ UNCHANGED <<sess, reg, now, hz, divz, width, pc, xid, heap, adapters,
                   failAt, regs>>

\* lines 332-360: the registry slot is emptied, the arrays, the entries and
\* the data block are released and the sink is unregistered (lines 455-465)
rte_sampler_sink_ringbuffer_destroy(sink, u) ==
    /\ ~RingDead
    /\ IF ~find_sink_data(sink)
       THEN /\ ret' = Ret("ringbuffer_destroy", sink.s, -EINVAL)
            /\ UNCHANGED <<rb, sess>>
       ELSE IF AnyFreesTwice(rb) /\ u = "abort"
       THEN /\ ret' = Ret("SIGABRT", 0, 0)
            /\ rb' = [rb EXCEPT !.fault = "abort", !.sink = NoSinkRef]
            /\ UNCHANGED sess
       ELSE /\ ret' = Ret("ringbuffer_destroy", sink.s, 0)
            /\ rb' = NoRing
            /\ sess' = [sess EXCEPT ![sink.s].sinks[sink.j].valid = FALSE]
    /\ log' = <<>>
    /\ UNCHANGED <<reg, now, hz, divz, width, pc, xid, heap, adapters, failAt,
                   regs>>

\* the threads of the model: the one that samples and the one that calls
\* the ring buffer API
Threads == {"sampler", "reader"}
NoSample == [src |-> 0, source_id |-> 0, ids |-> <<>>, values |-> <<>>, n |-> 0]
\* where a thread is: at is "idle" or the statement it is about to execute,
\* op the function it is in, sink, smp and max the arguments of the call
Idle ==
    [at |-> "idle", op |-> "none", sink |-> NoSinkRef, smp |-> NoSample,
     max |-> 0]
AllIdle == [t \in Threads |-> Idle]

\* what an access to the released data block does
UseAfterFreeOutcomes == {"SIGSEGV", "corrupt"}

\* thread t touches the data block after line 355 has released it
UseAfterFree(t, o) ==
    /\ ~rb.alloc
    /\ rb' = [rb EXCEPT !.fault = o]
    /\ pc' = [pc EXCEPT ![t] = Idle]
    /\ ret' = Ret(o, 0, 0)
    /\ UNCHANGED <<sess, failAt>>

\* rte_sampler.c:581-598: the pass of thread t finds the record of the ring
\* buffer sink valid and calls ringbuffer_sink_output with its user_data
Output_Enter(t, sink, smp) ==
    /\ ~RingDead
    /\ pc[t].at = "idle"
    /\ sink # NoSinkRef
    /\ sess[sink.s].alloc
    /\ sess[sink.s].sinks[sink.j].valid
    /\ sess[sink.s].sinks[sink.j].ops.output = "ring"
    /\ pc' = [pc EXCEPT ![t] = [at |-> "lock", op |-> "output",
                                sink |-> sink, smp |-> smp, max |-> 0]]
    /\ log' = <<>>
    /\ UNCHANGED <<sess, reg, now, hz, divz, width, rb, xid, heap, adapters,
                   failAt, regs, ret>>

\* lines 243-245, 263-265, 308-310, 339-341: find_sink_data at the start
\* of count, read, clear and destroy
Api_Enter(t, op, sink, max) ==
    /\ ~RingDead
    /\ pc[t].at = "idle"
    /\ IF find_sink_data(sink)
       THEN /\ pc' = [pc EXCEPT ![t] =
                        [at |-> IF op = "destroy" THEN "unregister"
                                ELSE "lock",
                         op |-> op, sink |-> sink, smp |-> NoSample,
                         max |-> max]]
            /\ UNCHANGED ret
       ELSE /\ ret' = Ret(op, sink.s, -EINVAL)
            /\ UNCHANGED pc
    /\ log' = <<>>
    /\ UNCHANGED <<sess, reg, now, hz, divz, width, rb, xid, heap, adapters,
                   failAt, regs>>

\* lines 129, 247, 267, 312: rte_spinlock_lock(&data->lock)
Ring_Lock(t, o) ==
    /\ ~RingDead
    /\ pc[t].at = "lock"
    /\ IF ~rb.alloc
       THEN UseAfterFree(t, o)
       ELSE /\ rb.lock = "free"
            /\ rb' = [rb EXCEPT !.lock = t]
            /\ pc' = [pc EXCEPT ![t].at = "body"]
            /\ UNCHANGED <<sess, failAt, ret>>
    /\ log' = <<>>
    /\ UNCHANGED <<reg, now, hz, divz, width, xid, heap, adapters, regs>>

\* what the call of thread t does between lock and unlock
Ring_Critical(t) ==
    IF pc[t].op = "output"
    THEN Output(rb, pc[t].smp, failAt, "ignored")
    ELSE IF pc[t].op = "ringbuffer_count"
    THEN [D |-> rb, fa |-> failAt, val |-> rb.count]
    ELSE IF pc[t].op = "ringbuffer_clear"
    THEN [D |-> Cleared(rb), fa |-> failAt, val |-> 0]
    ELSE [D |-> rb, fa |-> failAt, val |-> Min(pc[t].max, rb.count)]

\* lines 132-174, 248-251, 269-298, 314-329: the statements under the lock,
\* the unlock and the return
Ring_Body(t, o) ==
    /\ ~RingDead
    /\ pc[t].at = "body"
    /\ IF ~rb.alloc
       THEN UseAfterFree(t, o)
       ELSE /\ rb' = [Ring_Critical(t).D EXCEPT !.lock = "free"]
            /\ failAt' = Ring_Critical(t).fa
            /\ pc' = [pc EXCEPT ![t] = Idle]
            /\ ret' = Ret(pc[t].op, pc[t].sink.s, Ring_Critical(t).val)
            /\ UNCHANGED sess
    /\ log' = <<>>
    /\ UNCHANGED <<reg, now, hz, divz, width, xid, heap, adapters, regs>>

\* line 344: unregister_sink empties the registry slot
Destroy_Unregister(t) ==
    /\ ~RingDead
    /\ pc[t].at = "unregister"
    /\ rb' = [rb EXCEPT !.sink = IF @ = pc[t].sink THEN NoSinkRef ELSE @]
    /\ pc' = [pc EXCEPT ![t].at = "free"]
    /\ log' = <<>>
    /\ UNCHANGED <<sess, reg, now, hz, divz, width, xid, heap, adapters,
                   failAt, regs, ret>>

\* lines 347-355: the arrays, the entries and the data block are released;
\* data->lock is not taken
Destroy_Free(t, o) ==
    /\ ~RingDead
    /\ pc[t].at = "free"
    /\ IF ~rb.alloc
       THEN UseAfterFree(t, o)
       ELSE /\ rb' = NoRing
            /\ pc' = [pc EXCEPT ![t].at = "sink_unregister"]
            /\ UNCHANGED <<sess, failAt, ret>>
    /\ log' = <<>>
    /\ UNCHANGED <<reg, now, hz, divz, width, xid, heap, adapters, regs>>

\* lines 357-359: rte_sampler_sink_unregister(sink) and the return
Destroy_SinkUnregister(t) ==
    /\ ~RingDead
    /\ pc[t].at = "sink_unregister"
    /\ sess' = [sess EXCEPT ![pc[t].sink.s].sinks[pc[t].sink.j].valid = FALSE]
    /\ pc' = [pc EXCEPT ![t] = Idle]
    /\ ret' = Ret("ringbuffer_destroy", pc[t].sink.s, 0)
    /\ log' = <<>>
    /\ UNCHANGED <<reg, now, hz, divz, width, rb, xid, heap, adapters,
                   failAt, regs>>

(***************************************************************************)
(* The xstats id allocator (rte_sampler_xstats_id.c).  allocated_ids is    *)
(* kept as the set of the bit positions that are set in the 64-bit word.   *)
(***************************************************************************)
XSTATS_ID_BITS == 64
\* the value (uint64_t)-1
UINT64_MAX == 0 - 1

\* both statics are zero when the program starts
NoIds == [allocated_ids |-> {}, next_free_id |-> 0]

\* a search that takes the hint without looking at its bit
FreeFrom_Hint(id, start, allocated) == start

\* lines 15-20: the loop of rte_sampler_xstats_get_next_free_id, at id
RECURSIVE FreeFrom(_, _, _)
FreeFrom(id, start, allocated) ==
    IF id \notin allocated THEN id
    ELSE IF (id + 1) % XSTATS_ID_BITS = start THEN UINT64_MAX
    ELSE FreeFrom((id + 1) % XSTATS_ID_BITS, start, allocated)

\* lines 13-24
rte_sampler_xstats_get_next_free_id ==
    /\ LET id == FreeFrom(xid.next_free_id, xid.next_free_id,
                          xid.allocated_ids)
       IN IF id = UINT64_MAX
          THEN /\ ret' = Ret("get_next_free_id", 0, UINT64_MAX)
               /\ UNCHANGED xid
          ELSE /\ ret' = Ret("get_next_free_id", 0, id)
               /\ xid' = [allocated_ids |-> xid.allocated_ids \cup {id},
                          next_free_id |-> (id + 1) % XSTATS_ID_BITS]
    /\ log' = <<>>
    /\ UNCHANGED <<sess, reg, now, hz, divz, width, rb, pc, heap, adapters,
                   failAt, regs>>

\* lines 26-29
rte_sampler_xstats_set_next_free_id(id) ==
    /\ xid' = [xid EXCEPT !.next_free_id = id % XSTATS_ID_BITS]
    /\ ret' = Ret("set_next_free_id", 0, 0)
    /\ log' = <<>>
    /\ UNCHANGED <<sess, reg, now, hz, divz, width, rb, pc, heap, adapters,
                   failAt, regs>>

\* lines 31-34
rte_sampler_xstats_set_id_bit(id) ==
    /\ xid' = [xid EXCEPT !.allocated_ids = @ \cup {id % XSTATS_ID_BITS}]
    /\ ret' = Ret("set_id_bit", 0, 0)
    /\ log' = <<>>
    /\ UNCHANGED <<sess, reg, now, hz, divz, width, rb, pc, heap, adapters,
                   failAt, regs>>

\* lines 36-39
rte_sampler_xstats_clear_id_bit(id) ==
    /\ xid' = [xid EXCEPT !.allocated_ids = @ \ {id % XSTATS_ID_BITS}]
    /\ ret' = Ret("clear_id_bit", 0, 0)
    /\ log' = <<>>
    /\ UNCHANGED <<sess, reg, now, hz, divz, width, rb, pc, heap, adapters,
                   failAt, regs>>

(***************************************************************************)
(* Initial state: no session, empty registry                               *)
(***************************************************************************)
Init ==
    /\ sess = [s \in 1 .. MaxSessions |-> FreeBlock]
    /\ reg = EmptyRegistry
    /\ now = 0
    /\ hz = TimerHz
    /\ divz = Trap
    /\ width = CycleBits
    /\ rb = NoRing
    /\ pc = AllIdle
    /\ xid = NoIds
    /\ heap = ZeroHeap
    /\ adapters = [k \in AdapterIds |->
                      [mode |-> "ok", adv |-> Len(Catalog(k)),
                       fill |-> Len(Catalog(k))]]
    /\ failAt = 0
    /\ regs = [s \in 1 .. MaxSessions |-> [src |-> 0, snk |-> 0]]
    /\ log = <<>>
    /\ ret = Ret("init", 0, 0)

\* inputs of the applications
ManualConf == [sample_interval_ms |-> 0, duration_ms |-> 0]
GoodSourceOps == [is_null |-> FALSE, xstats_names_get |-> TRUE,
                  xstats_get |-> TRUE, xstats_reset |-> FALSE]
SinkOps(output, flags) == [is_null |-> FALSE, output |-> output, flags |-> flags]

(***************************************************************************)
(* SpecGrow: one manual session whose source array grows past its initial  *)
(* capacity; source number m is registered with source_id m mod 2          *)
(***************************************************************************)
GrowCreate ==
    /\ Live = {}
    /\ rte_sampler_session_create(ManualConf)

GrowRegisterSource ==
    \E s \in Live :
        /\ regs[s].src < MaxGrowRegs
        /\ rte_sampler_source_register(s, regs[s].src + 1,
                                       (regs[s].src + 1) % 2, GoodSourceOps)

GrowRegisterSink ==
    \E s \in Live : \E flags \in {0, RTE_SAMPLER_SINK_F_NO_NAMES} :
        /\ regs[s].snk < 1
        /\ rte_sampler_sink_register(s, regs[s].snk + 1, SinkOps("ok", flags))

GrowSample == \E s \in Live : rte_sampler_sample(s)

GrowSetMode == \E k \in AdapterIds : \E m \in AdapterModes : SetAdapterMode(k, m)

NextGrow ==
    \/ GrowCreate
    \/ GrowRegisterSource
    \/ GrowRegisterSink
    \/ GrowSample
    \/ GrowSetMode

SpecGrow == Init /\ [][NextGrow]_vars
(***************************************************************************)
(* Reading the callback log                                                *)
(***************************************************************************)
IsOutput(e) == e.kind = "output"
Outputs(lg) == SelectSeq(lg, IsOutput)

\* what a sink can read of one output call: the first n ids and values
Delivered(e) ==
    [src |-> e.src, source_id |-> e.source_id, n |-> e.n,
     ids |-> SubSeq(e.ids, 1, e.n), values |-> SubSeq(e.values, 1, e.n)]

\* the output calls of a log that concern the source named m
OutputsFor(lg, m) == SelectSeq(lg, LAMBDA e : e.kind = "output" /\ e.src = m)

ValidSinks(S) == {j \in 1 .. S.num_sinks : S.sinks[j].valid}
ValidSources(S) == {i \in 1 .. S.num_sources : S.sources[i].valid}

\* the catalog of adapter k as the two arrays an adapter fills
CatalogIds(k) == [i \in 1 .. Len(Catalog(k)) |-> Catalog(k)[i].id]
CatalogValues(k) == [i \in 1 .. Len(Catalog(k)) |-> 10 * (Catalog(k)[i].id + 1)]

(***************************************************************************)
(* C1: in SpecGrow (k sources registered, none unregistered, no filter),   *)
(* a sample call on a session with exactly one valid sink returns 0 and    *)
(* calls the sink exactly once for each registered source whose cache is   *)
(* populated and whose value fetch succeeds, with that source's name,      *)
(* source_id, all its ids, their values and n = the number of its stats -  *)
(* and not at all for the other sources.  This includes k > 8.             *)
(***************************************************************************)
\* source number m was cached before the pass
C1_WasCached(S, m) ==
    \E i \in 1 .. Len(S.sources) :
        /\ S.sources[i].valid
        /\ S.sources[i].name = m
        /\ S.sources[i].xstats_count > 0

\* discovery (if needed) and fetch of source number m succeed in this pass
C1_Succeeds(S, m) ==
    \/ adapters[m % 2].mode = "ok"
    \/ C1_WasCached(S, m) /\ adapters[m % 2].mode # "get_err"

C1_Expected(m) ==
    [src |-> m, source_id |-> m % 2, n |-> Len(Catalog(m % 2)),
     ids |-> CatalogIds(m % 2), values |-> CatalogValues(m % 2)]

C1_Step ==
    (ret'.op = "sample" /\ ret'.s # 0) =>
        LET s == ret'.s
        IN /\ ret'.val = 0
           /\ Cardinality(ValidSinks(sess[s])) = 1 =>
                /\ \A m \in 1 .. regs[s].src :
                      LET evs == OutputsFor(log', m)
                      IN IF C1_Succeeds(sess[s], m)
                         THEN Len(evs) = 1 /\ Delivered(evs[1]) = C1_Expected(m)
                         ELSE Len(evs) = 0
                /\ \A x \in 1 .. Len(log') :
                      log'[x].kind = "output" => log'[x].src \in 1 .. regs[s].src

C1_SampleDeliversOncePerSource == [][C1_Step]_vars

\* a pass over 9 or more sources, in a grown array, that delivered every one
\* of them, among them s0,s1,s2 / 0,1,2 / 10,20,30 with n = 3
C1_Witness ==
    /\ ret.op = "sample" /\ ret.val = 0 /\ ret.s # 0
    /\ regs[ret.s].src > INITIAL_SOURCES_PER_SESSION
    /\ sess[ret.s].sources_capacity = 2 * INITIAL_SOURCES_PER_SESSION
    /\ Cardinality(ValidSinks(sess[ret.s])) = 1
    /\ Len(Outputs(log)) = regs[ret.s].src
    /\ \E x \in 1 .. Len(log) :
          /\ log[x].kind = "output" /\ ~log[x].names_null
          /\ log[x].n = 3
          /\ SubSeq(log[x].names, 1, 3) = <<S_s0, S_s1, S_s2>>
          /\ SubSeq(log[x].ids, 1, 3) = <<0, 1, 2>>
          /\ SubSeq(log[x].values, 1, 3) = <<10, 20, 30>>
(***************************************************************************)
(* SpecFilter: one manual session; sources on either adapter; filters are  *)
(* set and cleared; sinks with and without the NO_NAMES flag               *)
(***************************************************************************)
FilterInputs == { <<P_rx_star, P_errors>>, <<P_none>> }

FltCreate ==
    /\ Live = {}
    /\ rte_sampler_session_create(ManualConf)

FltRegisterSource ==
    \E s \in Live : \E k \in AdapterIds :
        /\ regs[s].src < MaxFilterRegs
        /\ rte_sampler_source_register(s, regs[s].src + 1, k, GoodSourceOps)

FltRegisterSink ==
    \E s \in Live : \E flags \in {0, RTE_SAMPLER_SINK_F_NO_NAMES} :
        /\ regs[s].snk < MaxSinkRegs
        /\ rte_sampler_sink_register(s, regs[s].snk + 1, SinkOps("ok", flags))

FltSetFilter ==
    \E s \in Live : \E i \in ValidSources(sess[s]) : \E p \in FilterInputs :
        rte_sampler_source_set_filter(s, i, p)

FltClearFilter ==
    \E s \in Live : \E i \in ValidSources(sess[s]) :
        /\ sess[s].sources[i].filter_active
        /\ rte_sampler_source_clear_filter(s, i)

\* the caller's array before a call of get_filter
FltUnset == <<NullStr, NullStr, NullStr>>

FltGetFilter ==
    \E s \in Live : \E i \in ValidSources(sess[s]) :
        rte_sampler_source_get_filter(s, i, Arr(FltUnset), 2)

FltSample == \E s \in Live : rte_sampler_sample(s)

NextFilter ==
    \/ FltCreate
    \/ FltGetFilter
    \/ FltRegisterSource
    \/ FltRegisterSink
    \/ FltSetFilter
    \/ FltClearFilter
    \/ FltSample

SpecFilter == Init /\ [][NextFilter]_vars

(***************************************************************************)
(* SpecFault: one manual session; sources on both adapters, adapters whose *)
(* callbacks fail, sinks whose output fails, and a clock that advances     *)
(***************************************************************************)
FltyCreate ==
    /\ Live = {}
    /\ rte_sampler_session_create(ManualConf)

FltyRegisterSource ==
    \E s \in Live : \E k \in AdapterIds :
        /\ regs[s].src < MaxSourceRegs
        /\ rte_sampler_source_register(s, regs[s].src + 1, k, GoodSourceOps)

FltyRegisterSink ==
    \E s \in Live : \E out \in {"ok", "fail"} :
        /\ regs[s].snk < MaxSinkRegs
        /\ rte_sampler_sink_register(s, regs[s].snk + 1, SinkOps(out, 0))

FltySample == \E s \in Live : rte_sampler_sample(s)

FltySetMode == \E k \in AdapterIds : \E m \in AdapterModes : SetAdapterMode(k, m)

FltyTick == now < MaxSampleClock /\ Tick(1)

NextFault ==
    \/ FltyCreate
    \/ FltyRegisterSource
    \/ FltyRegisterSink
    \/ FltySample
    \/ FltySetMode
    \/ FltyTick

SpecFault == Init /\ [][NextFault]_vars

(***************************************************************************)
(* C2: in every output call with a non-NULL names array, for every i < n   *)
(* names[i] is the cached name of the stat whose id is ids[i] and          *)
(* values[i] is the value the adapter reports for that id.                 *)
(***************************************************************************)
\* the source record of session s that is named m
SourceNamed(s, m) ==
    sess[s].sources[CHOOSE i \in 1 .. Len(sess[s].sources) :
                        sess[s].sources[i].valid /\ sess[s].sources[i].name = m]

\* the cached name of the stat with the given id
CachedNameOf(src, id) ==
    src.xstats_names[CHOOSE j \in 1 .. src.xstats_count : src.ids[j] = id]

C2_NamesBelongToIds ==
    \A x \in 1 .. Len(log) :
        (log[x].kind = "output" /\ ~log[x].names_null) =>
            \A i \in 1 .. log[x].n :
                /\ log[x].names[i] =
                      CachedNameOf(SourceNamed(log[x].sess, log[x].src),
                                   log[x].ids[i])
                /\ log[x].values[i] = 10 * (log[x].ids[i] + 1)

(***************************************************************************)
(* C3: in one pass a sink is handed names = NULL if and only if the flags  *)
(* it was registered with contain RTE_SAMPLER_SINK_F_NO_NAMES, and all     *)
(* sinks are handed the same ids, values and n for a given source.         *)
(***************************************************************************)
\* the sink record of session s that is named m
SinkNamed(s, m) ==
    sess[s].sinks[CHOOSE j \in 1 .. Len(sess[s].sinks) :
                      sess[s].sinks[j].valid /\ sess[s].sinks[j].name = m]

C3_NamesNullIffFlag ==
    /\ \A x \in 1 .. Len(log) :
          log[x].kind = "output" =>
              (log[x].names_null <=>
                  (SinkNamed(log[x].sess, log[x].sink).ops.flags
                        \div RTE_SAMPLER_SINK_F_NO_NAMES) % 2 = 1)
    /\ \A x, y \in 1 .. Len(log) :
          (log[x].kind = "output" /\ log[y].kind = "output"
                /\ log[x].src = log[y].src) =>
              Delivered(log[x]) = Delivered(log[y])

\* one pass handed the same source to a flagged and to an unflagged sink
C3_Witness ==
    /\ ret.op = "sample"
    /\ \E x, y \in 1 .. Len(log) :
          /\ log[x].kind = "output" /\ log[y].kind = "output"
          /\ log[x].src = log[y].src
          /\ log[x].n > 0
          /\ log[x].names_null /\ ~log[y].names_null
(***************************************************************************)
(* C4: per-sink fault isolation.  After a sample call in which a sink's    *)
(* output returned a negative value for a source, every valid sink of the  *)
(* session has been called for that source with the same ids, values and   *)
(* n, every valid source of the session has been processed, and the call   *)
(* returned 0.                                                             *)
(***************************************************************************)
\* the source named m had a callback made in this log
Processed(lg, m) == \E x \in 1 .. Len(lg) : lg[x].src = m

C4_SinkFaultIsolated ==
    (ret.op = "sample" /\ ret.s # 0) =>
        LET S == sess[ret.s]
        IN \A x \in 1 .. Len(log) :
              (log[x].kind = "output" /\ log[x].rc < 0) =>
                  /\ ret.val = 0
                  /\ \A j \in ValidSinks(S) :
                        \E y \in 1 .. Len(log) :
                            /\ log[y].kind = "output"
                            /\ log[y].sink = S.sinks[j].name
                            /\ Delivered(log[y]) = Delivered(log[x])
                  /\ \A i \in ValidSources(S) : Processed(log, S.sources[i].name)

\* a failing sink registered before a working one, and two sources: the
\* working sink was called after the failure, for both sources
C4_Witness ==
    /\ ret.op = "sample" /\ ret.val = 0 /\ ret.s # 0
    /\ \E x, y, z \in 1 .. Len(log) :
          /\ x < y /\ y < z
          /\ log[x].kind = "output" /\ log[x].rc < 0
          /\ log[y].kind = "output" /\ log[y].rc = 0
          /\ log[y].src = log[x].src /\ log[y].sink # log[x].sink
          /\ log[z].kind = "output" /\ log[z].rc = 0
          /\ log[z].src # log[x].src

(***************************************************************************)
(* C5: per-source fault isolation.  In a sample call, a valid source whose *)
(* names_get (size query or fill) or values_get returns a negative value   *)
(* gets no sink call; every other valid source is delivered once to every  *)
(* valid sink; the call returns 0 and sets last_sample_time to the time of *)
(* the call.                                                               *)
(***************************************************************************)
\* a callback of the adapter fails for this source in a pass made now
C5_Fails(src) ==
    \/ adapters[src.source_id].mode = "get_err"
    \/ /\ src.xstats_count = 0
       /\ adapters[src.source_id].mode \in {"size_err", "fill_err"}

C5_Step ==
    (ret'.op = "sample" /\ ret'.s # 0) =>
        LET s == ret'.s
            S == sess[s]
        IN /\ ret'.val = 0
           /\ sess'[s].last_sample_time = now
           /\ \A i \in ValidSources(S) :
                 IF C5_Fails(S.sources[i])
                 THEN Len(OutputsFor(log', S.sources[i].name)) = 0
                 ELSE \A j \in ValidSinks(S) :
                        Cardinality({x \in 1 .. Len(log') :
                            /\ log'[x].kind = "output"
                            /\ log'[x].src = S.sources[i].name
                            /\ log'[x].sink = S.sinks[j].name}) = 1

C5_SourceFaultIsolated == [][C5_Step]_vars

\* a pass in which one source failed and got no sink call while another
\* source was delivered, and which moved last_sample_time forward
C5_Witness ==
    /\ ret.op = "sample" /\ ret.val = 0 /\ ret.s # 0
    /\ sess[ret.s].last_sample_time = now /\ now > 0
    /\ \E i, k \in ValidSources(sess[ret.s]) :
          LET a == sess[ret.s].sources[i]
              b == sess[ret.s].sources[k]
          IN /\ adapters[a.source_id].mode # "ok"
             /\ Processed(log, a.name)
             /\ Len(OutputsFor(log, a.name)) = 0
             /\ Len(OutputsFor(log, b.name)) > 0
(***************************************************************************)
(* C6: a sampling pass visits the valid sources in the order in which they *)
(* were registered and, for each source, calls the valid sinks in the      *)
(* order in which they were registered.  (Records are named by their       *)
(* registration number, so registration order is ascending name order.)    *)
(***************************************************************************)
C6_RegistrationOrder ==
    \A x, y \in 1 .. Len(log) :
        (x < y /\ log[x].kind = "output" /\ log[y].kind = "output") =>
            \/ log[x].src < log[y].src
            \/ log[x].src = log[y].src /\ log[x].sink < log[y].sink

(***************************************************************************)
(* SpecOrder: one manual session on which sources and sinks are registered *)
(* and unregistered in any order                                           *)
(***************************************************************************)
OrdCreate ==
    /\ Live = {}
    /\ rte_sampler_session_create(ManualConf)

OrdRegisterSource ==
    \E s \in Live :
        /\ regs[s].src < MaxOrderRegs
        /\ rte_sampler_source_register(s, regs[s].src + 1, 0, GoodSourceOps)

OrdUnregisterSource ==
    \E s \in Live : \E i \in 1 .. sess[s].num_sources :
        rte_sampler_source_unregister(s, i)

OrdRegisterSink ==
    \E s \in Live :
        /\ regs[s].snk < MaxOrderRegs
        /\ rte_sampler_sink_register(s, regs[s].snk + 1, SinkOps("ok", 0))

OrdUnregisterSink ==
    \E s \in Live : \E j \in 1 .. sess[s].num_sinks :
        rte_sampler_sink_unregister(s, j)

OrdSample == \E s \in Live : rte_sampler_sample(s)

NextOrder ==
    \/ OrdCreate
    \/ OrdRegisterSource
    \/ OrdUnregisterSource
    \/ OrdRegisterSink
    \/ OrdUnregisterSink
    \/ OrdSample

SpecOrder == Init /\ [][NextOrder]_vars

(***************************************************************************)
(* SpecPoll: sessions with an interval and a duration; each is given its   *)
(* sources, then its sinks, then it is started, stopped, queried, sampled  *)
(* and polled while the clock advances                                     *)
(***************************************************************************)
PollConfs ==
    {[sample_interval_ms |-> 1, duration_ms |-> 0],
     [sample_interval_ms |-> 0, duration_ms |-> 2],
     [sample_interval_ms |-> 1, duration_ms |-> 2]}

PollCreate == \E conf \in PollConfs : rte_sampler_session_create(conf)

PollRegisterSource ==
    \E s \in Live :
        /\ regs[s].src < MaxPollRegs
        /\ regs[s].snk = 0
        /\ rte_sampler_source_register(s, regs[s].src + 1, 0, GoodSourceOps)

PollRegisterSink ==
    \E s \in Live :
        /\ regs[s].snk < MaxPollRegs
        /\ regs[s].src > 0
        /\ sess[s].start_time = 0
        /\ ~sess[s].active
        /\ rte_sampler_sink_register(s, regs[s].snk + 1, SinkOps("ok", 0))

PollStart ==
    \E s \in Live : regs[s].snk > 0 /\ rte_sampler_session_start(s)

PollStop ==
    \E s \in Live : regs[s].snk > 0 /\ rte_sampler_session_stop(s)

PollIsActive ==
    \E s \in Live : regs[s].snk > 0 /\ rte_sampler_session_is_active(s)

PollSample ==
    \E s \in Live : regs[s].snk > 0 /\ rte_sampler_sample(s)

PollPoll == rte_sampler_poll

PollTick == Tick(1)

NextPoll ==
    \/ PollCreate
    \/ PollRegisterSource
    \/ PollRegisterSink
    \/ PollStart
    \/ PollStop
    \/ PollIsActive
    \/ PollSample
    \/ PollPoll
    \/ PollTick

SpecPoll == Init /\ [][NextPoll]_vars

(***************************************************************************)
(* SpecDemo: two sessions A (interval 1000 ms, duration 3000 ms) and B     *)
(* (interval 500 ms, no duration), each with one source and one counting   *)
(* sink, started at cycle 0 and polled at every cycle of a 2 Hz timer      *)
(* (one cycle is 500 ms) until cycle 11 (5500 ms).  The elapsed-time words *)
(* are wide enough for the whole run, as the 64-bit words of the code are. *)
(***************************************************************************)
DemoConfA == [sample_interval_ms |-> 1000, duration_ms |-> 3000]
DemoConfB == [sample_interval_ms |-> 500, duration_ms |-> 0]
DemoTimer == [hz |-> 2, width |-> 14, last |-> 11]

InitDemo ==
    /\ sess = [s \in 1 .. MaxSessions |-> FreeBlock]
    /\ reg = EmptyRegistry
    /\ now = 0
    /\ hz = DemoTimer.hz
    /\ divz = Trap
    /\ width = DemoTimer.width
    /\ rb = NoRing
    /\ pc = AllIdle
    /\ xid = NoIds
    /\ heap = ZeroHeap
    /\ adapters = [k \in AdapterIds |->
                      [mode |-> "ok", adv |-> Len(Catalog(k)),
                       fill |-> Len(Catalog(k))]]
    /\ failAt = 0
    /\ regs = [s \in 1 .. MaxSessions |-> [src |-> 0, snk |-> 0]]
    /\ log = <<>>
    /\ ret = Ret("init", 0, 0)

DemoCreate ==
    /\ Cardinality(Live) < 2
    /\ rte_sampler_session_create(IF Live = {} THEN DemoConfA ELSE DemoConfB)

DemoRegisterSource ==
    \E s \in Live, k \in AdapterIds :
        /\ regs[s].src = 0
        /\ ~sess[s].active
        /\ rte_sampler_source_register(s, 1, k, GoodSourceOps)

DemoRegisterSink ==
    \E s \in Live, flags \in {0, RTE_SAMPLER_SINK_F_NO_NAMES} :
        /\ regs[s].snk = 0
        /\ ~sess[s].active
        /\ rte_sampler_sink_register(s, 1, SinkOps("count", flags))

\* both sessions are started at cycle 0, once they have a source and a sink
DemoStart ==
    \E s \in Live :
        /\ \A q \in SessIds : regs[q].src = 1 /\ regs[q].snk = 1
        /\ ~sess[s].active
        /\ ret.op \in {"source_register", "sink_register", "start"}
        /\ rte_sampler_session_start(s)

\* poll is called once at every cycle, from the cycle of the two starts on
DemoPoll ==
    /\ \/ ret.op = "env"
       \/ ret.op = "start" /\ \A q \in SessIds : sess[q].active
    /\ rte_sampler_poll

DemoTick ==
    /\ ret.op = "poll"
    /\ now < DemoTimer.last
    /\ Advance(1)

NextDemo ==
    \/ DemoCreate
    \/ DemoRegisterSource
    \/ DemoRegisterSink
    \/ DemoStart
    \/ DemoPoll
    \/ DemoTick

SpecDemo == InitDemo /\ [][NextDemo]_vars

(***************************************************************************)
(* SpecLife: one session, with or without a duration, created, started,    *)
(* stopped and queried any number of times while the clock advances        *)
(***************************************************************************)
LifeConfs == [sample_interval_ms : {0, 1}, duration_ms : {0, 2}]

LifeCreate ==
    /\ Live = {}
    /\ \E conf \in LifeConfs : rte_sampler_session_create(conf)

LifeStart == \E s \in Live : rte_sampler_session_start(s)

LifeStop == \E s \in Live : rte_sampler_session_stop(s)

LifeIsActive == \E s \in Live : rte_sampler_session_is_active(s)

LifeTick == Tick(1)

NextLife ==
    \/ LifeCreate
    \/ LifeStart
    \/ LifeStop
    \/ LifeIsActive
    \/ LifeTick

SpecLife == Init /\ [][NextLife]_vars

(***************************************************************************)
(* Helpers of the polling claims                                           *)
(***************************************************************************)
\* milliseconds between two cycle counts, in unbounded arithmetic
TrueElapsedMs(current_time, since) == ((current_time - since) * MsPerSec) \div hz

\* the callbacks (source or sink) of a log made on behalf of session s
CallbacksOf(lg, s) == SelectSeq(lg, LAMBDA e : e.sess = s)

\* how many times session s appears in a sequence of sampled sessions
TimesSampled(sampled, s) ==
    Cardinality({k \in DOMAIN sampled : sampled[k] = s})

(***************************************************************************)
(* C7: rte_sampler_poll never triggers a source or sink callback of a      *)
(* session whose active flag is false (never started, stopped or expired), *)
(* whatever its interval and however much time has elapsed; and in every   *)
(* reachable state active implies valid.                                   *)
(***************************************************************************)
C7_Step ==
    ret'.op = "poll" =>
        \A s \in SessIds :
            (sess[s].alloc /\ (~sess[s].active \/ ~sess'[s].active)) =>
                /\ CallbacksOf(log', s) = <<>>
                /\ TimesSampled(ret'.sampled, s) = 0
                /\ sess'[s].last_sample_time = sess[s].last_sample_time
                /\ sess'[s].sources = sess[s].sources

C7_ActiveImpliesValid ==
    \A s \in SessIds : sess[s].active => sess[s].valid /\ sess[s].alloc

C7_PollSkipsInactive == [][C7_Step]_vars /\ []C7_ActiveImpliesValid

\* a poll that sampled one session and passed over an inactive one that has
\* a source and a sink, a non-zero interval and an overdue sample
C7_Witness ==
    /\ ret.op = "poll"
    /\ ret.val = 1
    /\ \E s \in SessIds :
          /\ sess[s].alloc
          /\ ~sess[s].active
          /\ sess[s].sample_interval_ms > 0
          /\ sess[s].num_sources > 0
          /\ sess[s].num_sinks > 0
          /\ TrueElapsedMs(now, sess[s].last_sample_time)
                >= sess[s].sample_interval_ms
          /\ TimesSampled(ret.sampled, s) = 0
          /\ CallbacksOf(log, s) = <<>>
    /\ Outputs(log) # <<>>

(***************************************************************************)
(* C8: rte_sampler_poll never acts on a session whose interval is 0: it    *)
(* triggers no source or sink callback for it and changes none of its      *)
(* fields (active and last_sample_time included), even when the session is *)
(* active and has a non-zero duration.                                     *)
(***************************************************************************)
C8_Step ==
    ret'.op = "poll" =>
        \A s \in SessIds :
            (sess[s].alloc /\ sess[s].valid
                /\ sess[s].sample_interval_ms = 0) =>
                /\ CallbacksOf(log', s) = <<>>
                /\ sess'[s] = sess[s]

C8_PollIgnoresManualSessions == [][C8_Step]_vars

(***************************************************************************)
(* C9: for a started session with duration D > 0 and start time T0, once   *)
(* is_active or poll is invoked at a time >= T0 + D the active flag is     *)
(* false, is_active returns 0, poll does not sample the session, and the   *)
(* session stays inactive until rte_sampler_session_start is called again. *)
(***************************************************************************)
C9_PastDuration(s) ==
    /\ sess[s].alloc
    /\ sess[s].valid
    /\ sess[s].active
    /\ sess[s].duration_ms > 0
    /\ TrueElapsedMs(now, sess[s].start_time) >= sess[s].duration_ms

C9_Step ==
    \A s \in SessIds :
        /\ (C9_PastDuration(s) /\ ret'.op = "is_active" /\ ret'.s = s) =>
                ~sess'[s].active /\ ret'.val = 0
        /\ (C9_PastDuration(s) /\ ret'.op = "poll") =>
                ~sess'[s].active /\ TimesSampled(ret'.sampled, s) = 0
        /\ (sess[s].alloc /\ ~sess[s].active /\ sess'[s].active) =>
                ret'.op = "start" /\ ret'.s = s

C9_ExpiresAfterDuration == [][C9_Step]_vars

(***************************************************************************)
(* C10: the interval is a lower bound with no catch-up: poll samples a     *)
(* session only if at least interval_ms milliseconds have elapsed since    *)
(* its last_sample_time; one poll call samples a due session exactly once  *)
(* however many intervals were missed; and poll returns the number of      *)
(* sessions it sampled in that call.                                       *)
(***************************************************************************)
\* an active session inside its duration whose interval has elapsed
C10_Due(s) ==
    /\ sess[s].alloc
    /\ sess[s].valid
    /\ sess[s].active
    /\ sess[s].duration_ms = 0
          \/ TrueElapsedMs(now, sess[s].start_time) < sess[s].duration_ms
    /\ sess[s].sample_interval_ms > 0
    /\ TrueElapsedMs(now, sess[s].last_sample_time)
          >= sess[s].sample_interval_ms

C10_Step ==
    ret'.op = "poll" =>
        /\ ret'.val = Len(ret'.sampled)
        /\ \A s \in SessIds :
              /\ TimesSampled(ret'.sampled, s) > 0 =>
                    /\ sess[s].sample_interval_ms > 0
                    /\ TrueElapsedMs(now, sess[s].last_sample_time)
                          >= sess[s].sample_interval_ms
              /\ C10_Due(s) =>
                    /\ TimesSampled(ret'.sampled, s) = 1
                    /\ sess'[s].last_sample_time = now
                    /\ Len(Outputs(CallbacksOf(log', s)))
                          = Cardinality(ValidSources(sess[s]))
                              * Cardinality(ValidSinks(sess[s]))

C10_IntervalLowerBound == [][C10_Step]_vars

(***************************************************************************)
(* C11: sessions A (interval 1000 ms, duration 3000 ms) and B (interval    *)
(* 500 ms, no duration) are started at the same instant and poll is called *)
(* at every clock tick; at t = 5500 ms A has been sampled 3 times and is   *)
(* inactive, B has been sampled 11 times and is still active.              *)
(***************************************************************************)
\* the number of passes the counting sink of session s has seen
SamplesSeen(s) == sess[s].sinks[1].user_data

C11_AtEnd == now = DemoTimer.last /\ ret.op = "poll"

C11_DemoCounts ==
    C11_AtEnd =>
        /\ SamplesSeen(1) = 3
        /\ ~sess[1].active
        /\ SamplesSeen(2) = 11
        /\ sess[2].active

(***************************************************************************)
(* C12: a session is inactive right after create; start makes it active    *)
(* and sets start_time = last_sample_time = now, also when it is already   *)
(* active; is_active then returns 1 until stop or expiry; stop makes it    *)
(* inactive and is_active returns 0; a second stop changes nothing.        *)
(***************************************************************************)
C12_Step ==
    \A s \in SessIds :
        /\ (ret'.op = "create" /\ ret'.s = s) => ~sess'[s].active
        /\ (ret'.op = "start" /\ ret'.s = s /\ sess[s].valid) =>
                /\ ret'.val = 0
                /\ sess'[s].active
                /\ sess'[s].start_time = now
                /\ sess'[s].last_sample_time = now
        /\ (ret'.op = "stop" /\ ret'.s = s /\ sess[s].valid) =>
                /\ ret'.val = 0
                /\ ~sess'[s].active
                /\ ~sess[s].active => sess'[s] = sess[s]
        /\ (ret'.op = "is_active" /\ ret'.s = s /\ sess[s].valid) =>
                /\ ~sess[s].active => ret'.val = 0 /\ sess'[s] = sess[s]
                /\ (sess[s].active
                      /\ (sess[s].duration_ms = 0
                            \/ TrueElapsedMs(now, sess[s].start_time)
                                  < sess[s].duration_ms)) =>
                        ret'.val = 1 /\ sess'[s] = sess[s]

C12_Lifecycle == [][C12_Step]_vars

\* is_active returns 1 right after a start made later than cycle 0 on a
\* session with a duration
C12_Witness ==
    /\ ret.op = "is_active"
    /\ ret.val = 1
    /\ ret.s \in SessIds
    /\ sess[ret.s].start_time = now
    /\ sess[ret.s].last_sample_time = now
    /\ now > 0
    /\ sess[ret.s].duration_ms > 0


(***************************************************************************)
(* Specification SpecDiscover: one manual session with one source on       *)
(* adapter 0 and one sink.  The adapter changes what it answers to the     *)
(* size query and to the fill call, one of its callbacks fails or one      *)
(* allocation fails, one anomaly at a time.                                *)
(***************************************************************************)
\* <<answer to the size query, answer to the fill call>>
DiscCounts == { <<3, 3>>, <<2, 2>>, <<0, 0>>, <<2, 0>>, <<2, 3>> }
DiscModes == {"ok", "size_err", "fill_err"}
DiscFilters == { <<S_s1>>, <<S_s0, S_s2>> }

\* the adapter reports one number of stats and none of its callbacks fails
Nominal(k) == adapters[k].mode = "ok" /\ adapters[k].adv = adapters[k].fill

DiscCreate ==
    /\ Live = {}
    /\ rte_sampler_session_create(ManualConf)

DiscRegisterSource ==
    \E s \in Live :
        /\ regs[s].src < 1
        /\ rte_sampler_source_register(s, regs[s].src + 1, 0,
                                       GoodSourceOps)

DiscRegisterSink ==
    \E s \in Live :
        /\ regs[s].snk < 1
        /\ rte_sampler_sink_register(s, regs[s].snk + 1, SinkOps("ok", 0))

DiscSetFilter ==
    \E s \in Live : \E i \in ValidSources(sess[s]) : \E p \in DiscFilters :
        rte_sampler_source_set_filter(s, i, p)

DiscClearFilter ==
    \E s \in Live : \E i \in ValidSources(sess[s]) :
        /\ sess[s].sources[i].filter_active
        /\ rte_sampler_source_clear_filter(s, i)

DiscSample == \E s \in Live : rte_sampler_sample(s)

DiscSetCounts ==
    \E c \in DiscCounts :
        /\ failAt = 0
        /\ adapters[0].mode = "ok"
        /\ heap = ZeroHeap
        /\ SetAdapterCounts(0, c[1], c[2])

DiscSetMode ==
    \E m \in DiscModes :
        /\ failAt = 0
        /\ adapters[0].adv = adapters[0].fill
        /\ adapters[0].adv = Len(Catalog(0))
        /\ SetAdapterMode(0, m)

DiscSetFailAt ==
    \E k \in 1 .. 4 :
        /\ Nominal(0)
        /\ adapters[0].adv = Len(Catalog(0))
        /\ SetFailAt(k)

DiscSetHeap ==
    \E h \in HeapStates :
        /\ adapters[0].fill > adapters[0].adv
        /\ SetHeap(h)

NextDiscover ==
    \/ DiscCreate
    \/ DiscRegisterSource
    \/ DiscRegisterSink
    \/ DiscSetFilter
    \/ DiscClearFilter
    \/ DiscSample
    \/ DiscSetCounts
    \/ DiscSetMode
    \/ DiscSetFailAt
    \/ DiscSetHeap

SpecDiscover == Init /\ [][NextDiscover]_vars

\* C13: for every valid source,
\* 0 <= filtered_count <= xstats_count <= xstats_capacity
C13_CountsOrdered ==
    \A s \in Live : \A i \in ValidSources(sess[s]) :
        /\ 0 <= sess[s].sources[i].filtered_count
        /\ sess[s].sources[i].filtered_count <= sess[s].sources[i].xstats_count
        /\ sess[s].sources[i].xstats_count <= sess[s].sources[i].xstats_capacity


(***************************************************************************)
(* C14: once a source with an active filter is cached, filtered_ids is the *)
(* order-preserving subsequence of the cached ids whose cached name        *)
(* matches at least one pattern, and a pass fetches and delivers exactly   *)
(* those ids.                                                              *)
(***************************************************************************)
\* the ids, from position i on, whose name matches some pattern of pats
RECURSIVE C14_Select(_, _, _, _)
C14_Select(names, ids, pats, i) ==
    IF i > Len(names) THEN <<>>
    ELSE (IF \E p \in 1 .. Len(pats) : match_pattern(pats[p], names[i])
          THEN <<ids[i]>> ELSE <<>>)
         \o C14_Select(names, ids, pats, i + 1)

C14_Expected(src) ==
    C14_Select(SubSeq(src.xstats_names, 1, src.xstats_count), src.ids,
               SubSeq(src.filter_patterns, 1, src.num_filter_patterns), 1)

C14_FilteredIds ==
    /\ \A s \in Live : \A i \in ValidSources(sess[s]) :
          (sess[s].sources[i].filter_active
                /\ sess[s].sources[i].xstats_count > 0) =>
              SubSeq(sess[s].sources[i].filtered_ids, 1,
                     sess[s].sources[i].filtered_count)
                  = C14_Expected(sess[s].sources[i])
    /\ \A x \in 1 .. Len(log) :
          (log[x].kind \in {"xstats_get", "output"}
                /\ SourceNamed(log[x].sess, log[x].src).filter_active) =>
              SubSeq(log[x].ids, 1, log[x].n)
                  = C14_Expected(SourceNamed(log[x].sess, log[x].src))

\* a pass delivered ids 0, 1 and 4 of a source with five cached stats
C14_Witness ==
    /\ ret.op = "sample"
    /\ \E x, y \in 1 .. Len(log) :
          /\ log[x].kind = "xstats_get" /\ log[y].kind = "output"
          /\ log[x].src = log[y].src
          /\ SourceNamed(log[y].sess, log[y].src).filter_active
          /\ SourceNamed(log[y].sess, log[y].src).xstats_count = 5
          /\ SubSeq(log[x].ids, 1, log[x].n) = <<0, 1, 4>>
          /\ SubSeq(log[y].ids, 1, log[y].n) = <<0, 1, 4>>

(***************************************************************************)
(* C15: clear_filter on a valid source leaves filter_active false and      *)
(* filtered_ids equal to the cached ids, get_filter then returns 0, and a  *)
(* pass over a source without an active filter delivers every cached stat. *)
(***************************************************************************)
\* the valid source named m of the session block S
C15_SourceOf(S, m) ==
    S.sources[CHOOSE i \in 1 .. Len(S.sources) :
                  S.sources[i].valid /\ S.sources[i].name = m]

C15_Step ==
    /\ \A s \in Live : \A i \in ValidSources(sess[s]) :
          /\ rte_sampler_source_clear_filter(s, i) =>
                /\ ret'.val = 0
                /\ ~sess'[s].sources[i].filter_active
                /\ sess'[s].sources[i].num_filter_patterns = 0
                /\ sess'[s].sources[i].filtered_count
                      = sess[s].sources[i].xstats_count
                /\ SubSeq(sess'[s].sources[i].filtered_ids, 1,
                          sess'[s].sources[i].filtered_count)
                      = SubSeq(sess[s].sources[i].ids, 1,
                               sess[s].sources[i].xstats_count)
                /\ sess'[s].sources[i].xstats_names
                      = sess[s].sources[i].xstats_names
                /\ sess'[s].sources[i].ids = sess[s].sources[i].ids
          /\ (rte_sampler_source_get_filter(s, i, Arr(FltUnset), 2)
                /\ ~sess[s].sources[i].filter_active) => ret'.val = 0
    /\ ret'.op = "sample" =>
          \A x \in 1 .. Len(log') :
              (log'[x].kind \in {"xstats_get", "output"}
                    /\ ~C15_SourceOf(sess'[log'[x].sess], log'[x].src).filter_active) =>
                  SubSeq(log'[x].ids, 1, log'[x].n)
                      = SubSeq(C15_SourceOf(sess'[log'[x].sess], log'[x].src).ids, 1,
                               C15_SourceOf(sess'[log'[x].sess], log'[x].src).xstats_count)

C15_ClearUndoesFilter == [][C15_Step]_vars

\* a pass delivered all five stats of a source whose filter was set and
\* then cleared
C15_Witness ==
    /\ ret.op = "sample"
    /\ \E x \in 1 .. Len(log) :
          /\ log[x].kind = "output"
          /\ log[x].n = 5
          /\ SubSeq(log[x].ids, 1, 5) = <<0, 1, 2, 3, 4>>
          /\ ~SourceNamed(log[x].sess, log[x].src).filter_active
          /\ SourceNamed(log[x].sess, log[x].src).filter_patterns_capacity > 0


(***************************************************************************)
(* C16: a set_filter call that returns an error leaves the patterns, the   *)
(* pattern count, filter_active, filtered_ids and filtered_count of every  *)
(* source as they were before the call.                                    *)
(***************************************************************************)
\* the filter state of a source record
C16_FilterState(src) ==
    [patterns |-> SubSeq(src.filter_patterns, 1, src.num_filter_patterns),
     num |-> src.num_filter_patterns,
     active |-> src.filter_active,
     ids |-> src.filtered_ids,
     count |-> src.filtered_count]

C16_Step ==
    \A s \in Live :
        (ret'.op = "set_filter" /\ ret'.s = s /\ ret'.val < 0) =>
            \A i \in 1 .. Len(sess[s].sources) :
                C16_FilterState(sess'[s].sources[i])
                    = C16_FilterState(sess[s].sources[i])

C16_FailedSetFilterNoChange == [][C16_Step]_vars


(***************************************************************************)
(* C17: a source that a pass found uncached and left uncached (its         *)
(* discovery failed or yielded nothing) has none of its four arrays        *)
(* allocated after the pass and no sink was called for it in the pass.     *)
(***************************************************************************)
C17_Step ==
    \A s \in Live : \A i \in ValidSources(sess[s]) :
        (ret'.op = "sample" /\ ret'.s = s /\ sess[s].valid
              /\ sess[s].sources[i].xstats_count = 0
              /\ sess'[s].sources[i].xstats_count = 0) =>
            /\ sess'[s].sources[i].xstats_names = <<>>
            /\ sess'[s].sources[i].ids = <<>>
            /\ sess'[s].sources[i].values = <<>>
            /\ sess'[s].sources[i].filtered_ids = <<>>
            /\ \A x \in 1 .. Len(log') :
                  ~(log'[x].kind = "output"
                      /\ log'[x].src = sess[s].sources[i].name)

C17_DiscoveryAllOrNothing == [][C17_Step]_vars


(***************************************************************************)
(* Specification SpecCache: one manual session with a sink and a source on *)
(* adapter 0 that is registered, sampled, filtered, reset, unregistered    *)
(* and registered again while the adapter changes the number of stats it   *)
(* reports.                                                                *)
(***************************************************************************)
MaxCacheRegs == 2
CacheCounts == {0, 2, 3}
CacheModes == {"ok", "reset_err", "get_err"}
CacheFilter == <<S_s1>>
CacheSourceOps == [GoodSourceOps EXCEPT !.xstats_reset = TRUE]

CacheCreate ==
    /\ Live = {}
    /\ rte_sampler_session_create(ManualConf)

CacheRegisterSource ==
    \E s \in Live :
        /\ regs[s].snk = 1
        /\ ValidSources(sess[s]) = {}
        /\ regs[s].src < MaxCacheRegs
        /\ rte_sampler_source_register(s, regs[s].src + 1, 0, CacheSourceOps)

CacheUnregisterSource ==
    \E s \in Live : \E i \in ValidSources(sess[s]) :
        rte_sampler_source_unregister(s, i)

CacheRegisterSink ==
    \E s \in Live :
        /\ regs[s].snk < 1
        /\ rte_sampler_sink_register(s, regs[s].snk + 1, SinkOps("ok", 0))

CacheSetFilter ==
    \E s \in Live : \E i \in ValidSources(sess[s]) :
        /\ ~sess[s].sources[i].filter_active
        /\ rte_sampler_source_set_filter(s, i, CacheFilter)

CacheClearFilter ==
    \E s \in Live : \E i \in ValidSources(sess[s]) :
        /\ sess[s].sources[i].filter_active
        /\ rte_sampler_source_clear_filter(s, i)

CacheSample == \E s \in Live : rte_sampler_sample(s)

CacheReset ==
    \E s \in Live : \E i \in {0} \cup ValidSources(sess[s]) :
        rte_sampler_xstats_reset(s, s, i, <<>>, 0)

CacheSetCounts ==
    \E c \in CacheCounts : SetAdapterCounts(0, c, c)

CacheSetMode ==
    \E m \in CacheModes : SetAdapterMode(0, m)

CacheFree == \E s \in Live : rte_sampler_session_free(s)

\* the caller's values array before a call of rte_sampler_xstats_get
CacheUnset == <<99, 99, 99>>
\* the ids and the n a caller asks values for
CacheQueries ==
    {[ids |-> NullArr, n |-> 3], [ids |-> NullArr, n |-> 2],
     [ids |-> Arr(<<1>>), n |-> 1], [ids |-> Arr(<<2, 0>>), n |-> 2]}

CacheGet ==
    \E s \in Live : \E i \in ValidSources(sess[s]) : \E q \in CacheQueries :
        rte_sampler_xstats_get(s, s, i, q.ids, Arr(CacheUnset), q.n)

NextCache ==
    \/ CacheCreate
    \/ CacheRegisterSource
    \/ CacheUnregisterSource
    \/ CacheRegisterSink
    \/ CacheSetFilter
    \/ CacheClearFilter
    \/ CacheSample
    \/ CacheReset
    \/ CacheSetCounts
    \/ CacheSetMode
    \/ CacheFree
    \/ CacheGet

SpecCache == Init /\ [][NextCache]_vars

(***************************************************************************)
(* C18: a source record whose cache holds N > 0 entries keeps its cached   *)
(* names, ids and count in every later step, and names_get is not called   *)
(* for it again; a newly registered record is uncached and its first pass  *)
(* caches what the adapter reports at that moment.                         *)
(***************************************************************************)
\* the first n stats of adapter k
C18_Current(k, n) == [j \in 1 .. n |-> Catalog(k)[j]]

C18_Step ==
    \A s \in {l \in Live : sess'[l].alloc} : \A i \in 1 .. Len(sess[s].sources) :
        /\ (sess[s].sources[i].valid /\ sess[s].sources[i].xstats_count > 0
                /\ sess'[s].sources[i].name = sess[s].sources[i].name) =>
              /\ sess'[s].sources[i].xstats_count
                    = sess[s].sources[i].xstats_count
              /\ sess'[s].sources[i].xstats_names
                    = sess[s].sources[i].xstats_names
              /\ sess'[s].sources[i].ids = sess[s].sources[i].ids
              /\ \A x \in 1 .. Len(log') :
                    ~(log'[x].kind = "names_get"
                        /\ log'[x].src = sess[s].sources[i].name)
        /\ (ret'.op = "source_register"
                /\ sess'[s].sources[i] # sess[s].sources[i]) =>
              /\ sess'[s].sources[i].valid
              /\ sess'[s].sources[i].xstats_count = 0
              /\ sess'[s].sources[i].xstats_names = <<>>
              /\ sess'[s].sources[i].ids = <<>>
        /\ (ret'.op = "sample" /\ sess[s].sources[i].valid
                /\ sess[s].sources[i].xstats_count = 0
                /\ adapters[0].adv > 0) =>
              /\ sess'[s].sources[i].xstats_count = adapters[0].adv
              /\ sess'[s].sources[i].xstats_names
                    = [j \in 1 .. adapters[0].adv |->
                          C18_Current(0, adapters[0].adv)[j].name]
              /\ sess'[s].sources[i].ids
                    = [j \in 1 .. adapters[0].adv |->
                          C18_Current(0, adapters[0].adv)[j].id]

C18_CacheFreeze == [][C18_Step]_vars

\* the record registered second, in the slot of the unregistered first one,
\* was sampled with its two cached stats while the adapter reports three
C18_Witness ==
    /\ ret.op = "sample"
    /\ adapters[0].adv = 3
    /\ \E s \in Live :
          /\ sess[s].sources[1].valid
          /\ sess[s].sources[1].name = 2
          /\ sess[s].sources[1].xstats_count = 2
          /\ \E x \in 1 .. Len(log) :
                log[x].kind = "output" /\ log[x].src = 2 /\ log[x].n = 2


(***************************************************************************)
(* Specification SpecReg: registrations with good and bad arguments on one *)
(* session, up to the growth of both arrays, with the allocation of the    *)
(* larger array failing or not.                                            *)
(***************************************************************************)
MaxRegSinkRegs == 5
RegSessions == {0} \cup Live
RegSourceOps ==
    { GoodSourceOps,
      [GoodSourceOps EXCEPT !.is_null = TRUE],
      [GoodSourceOps EXCEPT !.xstats_names_get = FALSE],
      [GoodSourceOps EXCEPT !.xstats_get = FALSE] }
RegSinkOps ==
    { SinkOps("ok", 0),
      [SinkOps("ok", 0) EXCEPT !.is_null = TRUE],
      SinkOps("NULL", 0) }

RegCreate ==
    /\ Live = {}
    /\ rte_sampler_session_create(ManualConf)

RegRegisterSource ==
    \E s \in RegSessions : \E named \in BOOLEAN : \E ops \in RegSourceOps :
        /\ Live # {}
        /\ \A l \in Live : regs[l].src < MaxGrowRegs
        /\ rte_sampler_source_register(s,
                IF named THEN regs[CHOOSE l \in Live : TRUE].src + 1 ELSE 0,
                0, ops)

RegRegisterSink ==
    \E s \in RegSessions : \E named \in BOOLEAN : \E ops \in RegSinkOps :
        /\ Live # {}
        /\ \A l \in Live : regs[l].snk < MaxRegSinkRegs
        /\ rte_sampler_sink_register(s,
                IF named THEN regs[CHOOSE l \in Live : TRUE].snk + 1 ELSE 0,
                ops)

RegSetFailAt == SetFailAt(1)

RegSample == \E s \in Live : rte_sampler_sample(s)

NextReg ==
    \/ RegCreate
    \/ RegRegisterSource
    \/ RegRegisterSink
    \/ RegSetFailAt
    \/ RegSample

SpecReg == Init /\ [][NextReg]_vars

(***************************************************************************)
(* C19: source_register returns NULL for a NULL or invalid session, a NULL *)
(* name or ops and ops without xstats_names_get or xstats_get;             *)
(* sink_register returns NULL for ops without output; both return NULL     *)
(* when the allocation of the larger array fails; a registration that      *)
(* returns NULL leaves the valid sources and sinks of every session as     *)
(* they were; and no registration calls a callback.                        *)
(***************************************************************************)
\* the valid source and sink records of the session block S, by slot
C19_ValidOf(S) ==
    [sources |-> [i \in ValidSources(S) |-> S.sources[i]],
     sinks |-> [j \in ValidSinks(S) |-> S.sinks[j]]]

C19_Step ==
    /\ ret'.op = "source_register" =>
          \A s \in RegSessions : \A ops \in RegSourceOps :
              \A name \in {0} \cup {regs[l].src + 1 : l \in Live} :
                  (rte_sampler_source_register(s, name, 0, ops)
                      /\ (s = 0 \/ ~sess[s].valid \/ name = 0 \/ ops.is_null
                            \/ ~ops.xstats_names_get \/ ~ops.xstats_get)) =>
                    ret'.val = 0
    /\ ret'.op = "sink_register" =>
          \A s \in RegSessions : \A ops \in RegSinkOps :
              \A name \in {0} \cup {regs[l].snk + 1 : l \in Live} :
                  (rte_sampler_sink_register(s, name, ops)
                      /\ (ops.is_null \/ ops.output = "NULL")) =>
                    ret'.val = 0
    /\ \A s \in Live :
          (ret'.s = s /\ failAt = 1
              /\ \/ /\ ret'.op = "source_register"
                    /\ \A i \in 1 .. Len(sess[s].sources) :
                          sess[s].sources[i].valid
                 \/ /\ ret'.op = "sink_register"
                    /\ \A j \in 1 .. Len(sess[s].sinks) :
                          sess[s].sinks[j].valid) =>
            ret'.val = 0
    /\ ret'.op \in {"source_register", "sink_register"} =>
          /\ log' = <<>>
          /\ ret'.val = 0 =>
                \A s \in SessIds :
                    /\ sess'[s].alloc = sess[s].alloc
                    /\ sess[s].alloc =>
                          C19_ValidOf(sess'[s]) = C19_ValidOf(sess[s])

C19_FailedRegisterNoChange == [][C19_Step]_vars

\* the registration of a ninth source failed on a session whose eight
\* sources and four sinks are valid
C19_Witness ==
    /\ ret.op = "source_register"
    /\ ret.val = 0
    /\ ret.s # 0
    /\ \E s \in Live :
          /\ Cardinality(ValidSources(sess[s])) = 8
          /\ sess[s].sources_capacity = 8
          /\ Cardinality(ValidSinks(sess[s])) >= 1


(***************************************************************************)
(* Specification SpecUnreg: one session with an interval of 1 ms whose     *)
(* sources and sinks are registered and unregistered between manual        *)
(* samples and polls.                                                      *)
(***************************************************************************)
MaxUnregRegs == 2
UnregConf == [sample_interval_ms |-> 1, duration_ms |-> 0]

UnregCreate ==
    /\ Live = {}
    /\ rte_sampler_session_create(UnregConf)

UnregRegisterSource ==
    \E s \in Live :
        /\ regs[s].src < MaxUnregRegs
        /\ rte_sampler_source_register(s, regs[s].src + 1, 0, GoodSourceOps)

UnregUnregisterSource ==
    \E s \in Live : \E i \in 1 .. sess[s].num_sources :
        rte_sampler_source_unregister(s, i)

UnregRegisterSink ==
    \E s \in Live :
        /\ regs[s].snk < MaxUnregRegs
        /\ rte_sampler_sink_register(s, regs[s].snk + 1, SinkOps("ok", 0))

UnregUnregisterSink ==
    \E s \in Live : \E j \in 1 .. sess[s].num_sinks :
        rte_sampler_sink_unregister(s, j)

UnregStart ==
    \E s \in Live : ~sess[s].active /\ rte_sampler_session_start(s)

UnregSample == \E s \in Live : rte_sampler_sample(s)

UnregPoll == rte_sampler_poll

UnregTick == now < MaxSampleClock /\ Tick(1)

NextUnreg ==
    \/ UnregCreate
    \/ UnregRegisterSource
    \/ UnregUnregisterSource
    \/ UnregRegisterSink
    \/ UnregUnregisterSink
    \/ UnregStart
    \/ UnregSample
    \/ UnregPoll
    \/ UnregTick

SpecUnreg == Init /\ [][NextUnreg]_vars

(***************************************************************************)
(* C20: an unregister call that returns 0 leaves the record not valid, and *)
(* a sample or a poll calls back only sources that are valid and delivers  *)
(* only to sinks that are valid, each valid sink receiving the same        *)
(* deliveries whether or not other sinks were registered and unregistered. *)
(***************************************************************************)
\* what the log lg delivers to the sink named m, in order
C20_DeliveriesTo(lg, m) ==
    SelectSeq(lg, LAMBDA e : e.kind = "output" /\ e.sink = m)

\* the deliveries of lg without the sink they went to
C20_Payload(lg) == [x \in 1 .. Len(lg) |-> [lg[x] EXCEPT !.sink = 0]]

C20_Step ==
    \A s \in Live :
        /\ \A j \in 1 .. sess[s].num_sinks :
              (rte_sampler_sink_unregister(s, j) /\ ret'.val = 0) =>
                  ~sess'[s].sinks[j].valid
        /\ \A i \in 1 .. sess[s].num_sources :
              (rte_sampler_source_unregister(s, i) /\ ret'.val = 0) =>
                  ~sess'[s].sources[i].valid
        /\ ret'.op \in {"sample", "poll"} =>
              /\ \A x \in 1 .. Len(log') :
                    /\ log'[x].sess = s
                    /\ \E i \in 1 .. sess[s].num_sources :
                          /\ sess[s].sources[i].valid
                          /\ sess[s].sources[i].name = log'[x].src
                    /\ log'[x].kind = "output" =>
                          \E j \in 1 .. sess[s].num_sinks :
                              /\ sess[s].sinks[j].valid
                              /\ sess[s].sinks[j].name = log'[x].sink
              /\ \A a, b \in ValidSinks(sess[s]) :
                    C20_Payload(C20_DeliveriesTo(log', sess[s].sinks[a].name))
                      = C20_Payload(C20_DeliveriesTo(log', sess[s].sinks[b].name))

C20_NoCallbackAfterUnregister == [][C20_Step]_vars

\* a poll delivered the remaining source to the remaining sink after one
\* source and one sink had been unregistered
C20_Witness ==
    /\ ret.op = "poll"
    /\ \E s \in Live :
          /\ regs[s].src = 2 /\ Cardinality(ValidSources(sess[s])) = 1
          /\ regs[s].snk = 2 /\ Cardinality(ValidSinks(sess[s])) = 1
          /\ \E x \in 1 .. Len(log) : log[x].kind = "output" /\ log[x].n > 0


(***************************************************************************)
(* C21: rte_sampler_session_free releases the blocks of every source       *)
(* record of the session, the records of unregistered sources included.    *)
(***************************************************************************)
C21_Step ==
    \A s \in Live :
        rte_sampler_session_free(s) =>
            \A i \in 1 .. Len(sess[s].sources) :
                SourceBlocks(sess[s].sources[i]) > 0 =>
                    i \in ReleasedByFree(sess[s])

C21_FreeReleasesSources == [][C21_Step]_vars


(***************************************************************************)
(* Specifications SpecMany and SpecManyFail: the registry around its       *)
(* initial capacity.  In the first state INITIAL_SESSIONS_CAPACITY - 1     *)
(* sessions have been created and the first of them started; more are      *)
(* created and freed, started, sampled, stopped and polled.  In            *)
(* SpecManyFail the allocation of the larger registry can fail.            *)
(***************************************************************************)
MaxManySessions == 34
ManyCreated == INITIAL_SESSIONS_CAPACITY - 1
\* the session whose handle is used after its creation: the first one
\* that does not fit the initial registry
ManyHandles == {INITIAL_SESSIONS_CAPACITY + 1}

InitMany ==
    /\ sess = [s \in 1 .. MaxManySessions |->
                  IF s = 1
                  THEN [NewSession(UnregConf) EXCEPT !.active = TRUE]
                  ELSE IF s <= ManyCreated THEN NewSession(UnregConf)
                  ELSE FreeBlock]
    /\ reg = [sessions |-> [i \in 1 .. INITIAL_SESSIONS_CAPACITY |->
                               IF i <= ManyCreated THEN i ELSE 0],
              num_sessions |-> ManyCreated,
              capacity |-> INITIAL_SESSIONS_CAPACITY]
    /\ now = 0
    /\ hz = TimerHz
    /\ divz = Trap
    /\ width = CycleBits
    /\ rb = NoRing
    /\ pc = AllIdle
    /\ xid = NoIds
    /\ heap = ZeroHeap
    /\ adapters = [k \in AdapterIds |->
                      [mode |-> "ok", adv |-> Len(Catalog(k)),
                       fill |-> Len(Catalog(k))]]
    /\ failAt = 0
    /\ regs = [s \in 1 .. MaxManySessions |-> [src |-> 0, snk |-> 0]]
    /\ log = <<>>
    /\ ret = Ret("init", 0, 0)

ManyCreate == rte_sampler_session_create(UnregConf)

ManyFree ==
    \E s \in Live \cap ({1} \cup ManyHandles) : rte_sampler_session_free(s)

ManyStart ==
    \E s \in Live \cap ManyHandles :
        ~sess[s].active /\ rte_sampler_session_start(s)

ManyStop ==
    \E s \in Live \cap ManyHandles :
        sess[s].active /\ rte_sampler_session_stop(s)

ManySample == \E s \in Live \cap ManyHandles : rte_sampler_sample(s)

ManyPoll == rte_sampler_poll

ManyTick == now < MaxSampleClock /\ Tick(1)

\* the fourth allocation from now on fails: the one made after the three
\* allocations of a session
ManySetFailAt ==
    /\ failAt = 0
    /\ reg.capacity > 0
    /\ FirstNullSlot(reg.sessions) = 0
    /\ SetFailAt(4)

NextMany ==
    \/ ManyCreate
    \/ ManyFree
    \/ ManyStart
    \/ ManyStop
    \/ ManySample
    \/ ManyPoll
    \/ ManyTick

SpecMany == InitMany /\ [][NextMany]_vars

NextManyFail ==
    \/ ManyCreate
    \/ ManyFree
    \/ ManyStart
    \/ ManyStop
    \/ ManySample
    \/ ManyPoll
    \/ ManyTick
    \/ ManySetFailAt

SpecManyFail == InitMany /\ [][NextManyFail]_vars


\* the registry slots, among those poll visits, that hold the session s
C22_SlotsOf(r, s) == {i \in 1 .. r.num_sessions : r.sessions[i] = s}

\* the sessions a poll at the current time has to sample
C22_Due ==
    {s \in Live : /\ sess[s].active
                  /\ sess[s].sample_interval_ms > 0
                  /\ TrueElapsedMs(now, sess[s].last_sample_time) >=
                         sess[s].sample_interval_ms}

\* every live session is in the registry exactly once and no slot holds a
\* freed session
C22_Registry ==
    /\ \A s \in Live : Cardinality(C22_SlotsOf(reg, s)) = 1
    /\ \A i \in 1 .. Len(reg.sessions) :
           reg.sessions[i] # 0 =>
               /\ i <= reg.num_sessions
               /\ reg.sessions[i] \in Live

\* a poll samples each due session once and no other session
C22_Step ==
    ret'.op = "poll" =>
        /\ Len(ret'.sampled) = Cardinality(C22_Due)
        /\ {ret'.sampled[j] : j \in 1 .. Len(ret'.sampled)} = C22_Due
        /\ ret'.val = Cardinality(C22_Due)
        /\ \A s \in Live \ C22_Due :
               sess'[s].last_sample_time = sess[s].last_sample_time

C23_Registered(r) == {r.sessions[i] : i \in 1 .. r.num_sessions} \ {0}

\* the live sessions that are not in the registry
C23_Unregistered == Live \ C23_Registered(reg)

\* the registry is full and the allocation of a larger one is going to fail
C23_GrowthFails ==
    /\ reg.capacity > 0
    /\ FirstNullSlot(reg.sessions) = 0
    /\ failAt = 4

C23_Step ==
    /\ rte_sampler_session_create(UnregConf) /\ C23_GrowthFails =>
           /\ ret'.val \in SessIds \ Live
           /\ sess'[ret'.val] = NewSession(UnregConf)
           /\ reg' = reg
           /\ \A s \in Live : sess'[s] = sess[s]
    /\ ret'.op = "poll" =>
           /\ Len(ret'.sampled) =
                  Cardinality(C22_Due \cap C23_Registered(reg))
           /\ {ret'.sampled[j] : j \in 1 .. Len(ret'.sampled)} =
                  C22_Due \cap C23_Registered(reg)
           /\ \A s \in C23_Unregistered : sess'[s] = sess[s]
    /\ \A s \in C23_Unregistered :
           /\ rte_sampler_session_start(s) =>
                  /\ ret'.val = 0
                  /\ sess'[s].active
                  /\ sess'[s].last_sample_time = now
           /\ rte_sampler_sample(s) =>
                  /\ ret'.val = 0
                  /\ sess'[s].last_sample_time = now
           /\ rte_sampler_session_stop(s) =>
                  /\ ret'.val = 0
                  /\ ~sess'[s].active
           /\ rte_sampler_session_free(s) =>
                  /\ ~sess'[s].alloc
                  /\ reg' = reg

TimeConf == [sample_interval_ms |-> 1, duration_ms |-> 2]

TimeCreate ==
    /\ Live = {}
    /\ rte_sampler_session_create(TimeConf)

TimeRegisterSource ==
    \E s \in Live :
        /\ regs[s].src < MaxFilterRegs
        /\ ValidSources(sess[s]) = {}
        /\ rte_sampler_source_register(s, regs[s].src + 1, 0, GoodSourceOps)

TimeUnregisterSource ==
    \E s \in Live : \E i \in 1 .. sess[s].num_sources :
        rte_sampler_source_unregister(s, i)

TimeRegisterSink ==
    \E s \in Live :
        /\ regs[s].snk < MaxFilterRegs
        /\ ValidSinks(sess[s]) = {}
        /\ rte_sampler_sink_register(s, regs[s].snk + 1, SinkOps("ok", 0))

TimeUnregisterSink ==
    \E s \in Live : \E j \in 1 .. sess[s].num_sinks :
        rte_sampler_sink_unregister(s, j)

TimeSetFilter ==
    \E s \in Live : \E i \in ValidSources(sess[s]) :
        rte_sampler_source_set_filter(s, i, <<S_s1>>)

TimeClearFilter ==
    \E s \in Live : \E i \in ValidSources(sess[s]) :
        /\ sess[s].sources[i].filter_active
        /\ rte_sampler_source_clear_filter(s, i)

TimeStart == \E s \in Live : rte_sampler_session_start(s)

TimeStop == \E s \in Live : rte_sampler_session_stop(s)

TimeIsActive == \E s \in Live : rte_sampler_session_is_active(s)

TimeSample == \E s \in {0} \cup Live : rte_sampler_sample(s)

TimePoll == rte_sampler_poll

TimeTick == Tick(1)

NextTime ==
    \/ TimeCreate
    \/ TimeRegisterSource
    \/ TimeUnregisterSource
    \/ TimeRegisterSink
    \/ TimeUnregisterSink
    \/ TimeSetFilter
    \/ TimeClearFilter
    \/ TimeStart
    \/ TimeStop
    \/ TimeIsActive
    \/ TimeSample
    \/ TimePoll
    \/ TimeTick

SpecTime == Init /\ [][NextTime]_vars


C24_Step ==
    /\ now' >= now
    /\ \A s \in Live :
           sess'[s].alloc =>
               /\ sess'[s].last_sample_time >= sess[s].last_sample_time
               /\ sess'[s].last_sample_time # sess[s].last_sample_time =>
                      /\ sess[s].valid
                      /\ sess'[s].last_sample_time = now
                      /\ \/ ret' = Ret("start", s, 0)
                         \/ ret' = Ret("sample", s, 0)
                         \/ /\ ret'.op = "poll"
                            /\ \E j \in 1 .. Len(ret'.sampled) :
                                   ret'.sampled[j] = s
    /\ \A s \in Live :
           ret' = Ret("sample", s, 0) => sess'[s].last_sample_time = now
    /\ (ret'.op = "sample" /\ ret'.val = -EINVAL) =>
           /\ ret'.s = 0 \/ ~sess[ret'.s].valid
           /\ log' = <<>>
           /\ UNCHANGED <<sess, reg, failAt, heap>>

\* C24: while the clock does not go back, the last_sample_time of a session
\* never decreases; it changes only in a start, in a sample that returns 0
\* and in a poll that samples the session, always to the current time; a
\* sample that returns -EINVAL changes nothing.
C24_LastSampleTimeMonotone == [][C24_Step]_vars

\* a sample with a NULL session has been rejected at a time when the
\* session was last sampled after its start
C24_Witness ==
    /\ ret = Ret("sample", 0, -EINVAL)
    /\ \E s \in Live :
           /\ sess[s].last_sample_time > sess[s].start_time
           /\ sess[s].last_sample_time < now
           /\ sess[s].sources[1].filter_active


\* the ids whose values the pass recorded in lg fetched from the source
\* registered under name m
C25_Fetched(lg, m) ==
    UNION {{lg[e].ids[j] : j \in 1 .. lg[e].n} :
              e \in {x \in 1 .. Len(lg) : /\ lg[x].kind = "xstats_get"
                                         /\ lg[x].src = m
                                         /\ lg[x].rc >= 0}}

\* the outputs of a query q answered out for the source src, given the ids
\* the last pass fetched
C25_Answer(src, q, fetched, out) ==
    IF q.ids.null
    THEN \A p \in 1 .. Min(q.n, src.xstats_count) :
            src.ids[p] \in fetched =>
                out[p] = StatValue(src.source_id, src.ids[p])
    ELSE \A p \in 1 .. q.n :
            q.ids.at[p] \in fetched =>
                out[p] = StatValue(src.source_id, q.ids.at[p])

C25_Step ==
    \A s \in Live : \A i \in ValidSources(sess[s]) : \A q \in CacheQueries :
        (/\ ret = Ret("sample", s, 0)
         /\ rte_sampler_xstats_get(s, s, i, q.ids, Arr(CacheUnset), q.n)) =>
            C25_Answer(sess[s].sources[i], q,
                       C25_Fetched(log, sess[s].sources[i].name), ret'.out)

\* C25: rte_sampler_xstats_get called on a source right after a sampling
\* pass gives, for every requested id the pass fetched, the value the
\* adapter returned for it, and with ids == NULL gives the fetched values
\* of the cached stats in cache order, with or without a filter.
C25_GetReturnsLastSample == [][C25_Step]_vars


\* the reset callbacks a log holds for the source registered under name m
C26_ResetCalls(lg, m) ==
    {x \in 1 .. Len(lg) : lg[x].kind = "xstats_reset" /\ lg[x].src = m}

\* what a reset call has to do with the source src, which it left as after
C26_SourceReset(src, after, lg) ==
    /\ Cardinality(C26_ResetCalls(lg, src.name)) =
           (IF src.ops.xstats_reset THEN 1 ELSE 0)
    /\ IF src.ops.xstats_reset /\ AdapterReset(src.source_id) < 0
       THEN after.values = src.values
       ELSE \A p \in 1 .. Len(after.values) : after.values[p] = 0

C26_Step ==
    \A s \in Live : \A i \in {0} \cup ValidSources(sess[s]) :
        rte_sampler_xstats_reset(s, s, i, <<>>, 0) =>
            /\ \A m \in ValidSources(sess[s]) :
                   (i = 0 \/ i = m) =>
                       C26_SourceReset(sess[s].sources[m],
                                       sess'[s].sources[m], log')
            /\ i # 0 =>
                   ret'.val =
                       (IF sess[s].sources[i].ops.xstats_reset
                        THEN Min(AdapterReset(sess[s].sources[i].source_id), 0)
                        ELSE 0)

\* C26: a reset calls the reset callback of each source it is about once,
\* clears the cached values of a source whose callback succeeded or is
\* absent, and leaves the cached values of a source whose callback failed,
\* in the call on one source (which returns the error) and in the call on
\* all sources.
C26_ResetKeepsValuesOnFailure == [][C26_Step]_vars


(***************************************************************************)
(* Specification SpecTrip: one manual session with at most one valid       *)
(* source at a time, whose filter is set, read back with every array size, *)
(* and cleared, between samples; the source can be unregistered and read   *)
(* back again.                                                             *)
(***************************************************************************)
TripCreate ==
    /\ Live = {}
    /\ rte_sampler_session_create(ManualConf)

TripRegisterSource ==
    \E s \in Live :
        /\ regs[s].src < MaxCacheRegs
        /\ ValidSources(sess[s]) = {}
        /\ rte_sampler_source_register(s, regs[s].src + 1, 1, GoodSourceOps)

TripUnregisterSource ==
    \E s \in Live : \E i \in ValidSources(sess[s]) :
        rte_sampler_source_unregister(s, i)

TripSetFilter ==
    \E s \in Live : \E i \in ValidSources(sess[s]) : \E p \in FilterInputs :
        rte_sampler_source_set_filter(s, i, p)

TripClearFilter ==
    \E s \in Live : \E i \in ValidSources(sess[s]) :
        rte_sampler_source_clear_filter(s, i)

TripGetFilter ==
    \E s \in Live : \E i \in 1 .. sess[s].num_sources :
        \E m \in 0 .. Len(FltUnset) :
            rte_sampler_source_get_filter(s, i, Arr(FltUnset), m)

TripSample == \E s \in Live : rte_sampler_sample(s)

NextTrip ==
    \/ TripCreate
    \/ TripRegisterSource
    \/ TripUnregisterSource
    \/ TripSetFilter
    \/ TripClearFilter
    \/ TripGetFilter
    \/ TripSample

SpecTrip == Init /\ [][NextTrip]_vars

\* what get_filter has to give for a filter of patterns P and a caller's
\* array of m slots
C27_Expected(P, m) ==
    [val |-> Len(P),
     out |-> [p \in 1 .. Len(FltUnset) |->
                 IF p <= Min(m, Len(P)) THEN P[p] ELSE FltUnset[p]]]

C27_Step ==
    \A s \in Live : \A i \in 1 .. sess[s].num_sources :
        \A m \in 0 .. Len(FltUnset) :
            /\ \A P \in FilterInputs :
                   (rte_sampler_source_set_filter(s, i, P) /\ ret'.val = 0) =>
                       GetFilter(sess'[s].sources[i], Arr(FltUnset), m) =
                           C27_Expected(P, m)
            /\ (rte_sampler_source_clear_filter(s, i) /\ ret'.val = 0) =>
                   GetFilter(sess'[s].sources[i], Arr(FltUnset), m) =
                       [val |-> 0, out |-> FltUnset]
            /\ ret' = Ret("source_register", s, i) =>
                   GetFilter(sess'[s].sources[i], Arr(FltUnset), m) =
                       [val |-> 0, out |-> FltUnset]
            /\ (sess[s].sources[i].valid /\ sess'[s].sources[i].valid
                   /\ ret'.op \notin {"set_filter", "clear_filter",
                                      "source_register"}) =>
                   GetFilter(sess'[s].sources[i], Arr(FltUnset), m) =
                       GetFilter(sess[s].sources[i], Arr(FltUnset), m)
            /\ rte_sampler_source_get_filter(s, i, Arr(FltUnset), m) =>
                   /\ ret'.val =
                          GetFilter(sess[s].sources[i], Arr(FltUnset), m).val
                   /\ ret'.out =
                          GetFilter(sess[s].sources[i], Arr(FltUnset), m).out
                   /\ ~sess[s].sources[i].valid =>
                          ret'.val = -EINVAL /\ ret'.out = FltUnset

\* C27: after a set_filter of k patterns P that returned 0, and until the
\* filter is set again or cleared, get_filter with room for m patterns
\* returns k and stores the first min(m, k) patterns of P, in order, and
\* nothing else; it returns 0 and stores nothing for a source whose filter
\* was never set or was cleared, and -EINVAL for a source that is not valid.
C27_GetFilterRoundTrip == [][C27_Step]_vars

\* get_filter with room for one pattern has been called on a source whose
\* filter has two, after a sample
C27_Witness ==
    /\ ret.op = "get_filter"
    /\ ret.val = 2
    /\ ret.out = <<P_rx_star, NullStr, NullStr>>
    /\ \E s \in Live : \E i \in ValidSources(sess[s]) :
           sess[s].sources[i].xstats_count > 0


(***************************************************************************)
(* Specification SpecZero: the timer reports zero cycles per second.  The  *)
(* divisions of lines 290 and 637 are then undefined: depending on the     *)
(* build the instruction traps, or gives 0, or gives the all-ones word.    *)
(* Sessions with and without a duration are created, started, stopped,     *)
(* tested and polled until the process is stopped.                         *)
(***************************************************************************)
DivZeroOutcomes == {Trap, 0, Word - 1}
ZeroConfs == {[sample_interval_ms |-> 1, duration_ms |-> 0],
              [sample_interval_ms |-> 1, duration_ms |-> 2]}

InitZero ==
    /\ sess = [s \in 1 .. MaxSessions |-> FreeBlock]
    /\ reg = EmptyRegistry
    /\ now = 0
    /\ hz = 0
    /\ divz \in DivZeroOutcomes
    /\ width = CycleBits
    /\ rb = NoRing
    /\ pc = AllIdle
    /\ xid = NoIds
    /\ heap = ZeroHeap
    /\ adapters = [k \in AdapterIds |->
                      [mode |-> "ok", adv |-> Len(Catalog(k)),
                       fill |-> Len(Catalog(k))]]
    /\ failAt = 0
    /\ regs = [s \in 1 .. MaxSessions |-> [src |-> 0, snk |-> 0]]
    /\ log = <<>>
    /\ ret = Ret("init", 0, 0)

ZeroCreate ==
    /\ ~Killed
    /\ \E c \in ZeroConfs : rte_sampler_session_create(c)

ZeroStart ==
    /\ ~Killed
    /\ \E s \in Live : ~sess[s].active /\ rte_sampler_session_start(s)

ZeroStop ==
    /\ ~Killed
    /\ \E s \in Live : sess[s].active /\ rte_sampler_session_stop(s)

ZeroIsActive ==
    /\ ~Killed
    /\ \E s \in Live : rte_sampler_session_is_active(s)

ZeroPoll == ~Killed /\ rte_sampler_poll

ZeroTick == ~Killed /\ now < MaxSampleClock /\ Tick(1)

NextZero ==
    \/ ZeroCreate
    \/ ZeroStart
    \/ ZeroStop
    \/ ZeroIsActive
    \/ ZeroPoll
    \/ ZeroTick

SpecZero == InitZero /\ [][NextZero]_vars

\* the session block S without its active flag
C28_Rest(S) == [S EXCEPT !.active = FALSE]

C28_Step ==
    /\ \A s \in Live :
           rte_sampler_session_is_active(s) =>
               /\ ret'.op = "is_active"
               /\ ret'.val \in {0, 1}
               /\ \A l \in Live : C28_Rest(sess'[l]) = C28_Rest(sess[l])
    /\ rte_sampler_poll =>
           /\ ret'.op = "poll"
           /\ ret'.val = 0
           /\ ret'.sampled = <<>>
           /\ \A l \in Live : C28_Rest(sess'[l]) = C28_Rest(sess[l])

\* C28: when the timer reports zero cycles per second, is_active and poll
\* complete, poll samples no session and returns 0, and no field of a
\* session other than its active flag changes.
C28_ZeroHzDegrades == [][C28_Step]_vars


(***************************************************************************)
(* Specification SpecGlob: match_pattern applied to one pattern and one    *)
(* name.  The first state holds the two strings (in ret.out), every string *)
(* of at most MaxGlobLen characters over GlobChars and the strings of the  *)
(* documented examples; the one step calls the matcher.                    *)
(***************************************************************************)
MaxGlobLen == 3
GlobChars == {"a", "b", "*", "?"}
GlobStrings == UNION {[1 .. k -> GlobChars] : k \in 0 .. MaxGlobLen}

\* the documented examples: pattern, name, whether they match
GlobExamples ==
    {[p |-> <<"*">>, n |-> <<>>, m |-> TRUE],
     [p |-> <<"*">>, n |-> <<"a", "b", "c">>, m |-> TRUE],
     [p |-> <<>>, n |-> <<>>, m |-> TRUE],
     [p |-> <<>>, n |-> <<"a">>, m |-> FALSE],
     [p |-> <<"a", "?", "c">>, n |-> <<"a", "b", "c">>, m |-> TRUE],
     [p |-> <<"a", "?", "c">>, n |-> <<"a", "c">>, m |-> FALSE],
     [p |-> <<"a", "?", "c">>, n |-> <<"a", "b", "b", "c">>, m |-> FALSE],
     [p |-> <<"a", "*", "b", "*", "c">>, n |-> <<"a", "b", "c">>,
      m |-> TRUE],
     [p |-> <<"a", "*", "b", "*", "c">>,
      n |-> <<"a", "x", "x", "b", "x", "x", "c">>, m |-> TRUE],
     [p |-> <<"a", "b", "c">>, n |-> <<"a", "b", "c">>, m |-> TRUE],
     [p |-> <<"a", "b", "c">>, n |-> <<"a", "b">>, m |-> FALSE],
     [p |-> <<"a", "b", "c">>, n |-> <<"a", "b", "c", "c">>, m |-> FALSE],
     [p |-> <<"a", "b", "c">>, n |-> <<"a", "b", "b">>, m |-> FALSE]}

GlobInputs ==
    {<<p, n>> : p \in GlobStrings, n \in GlobStrings}
        \cup {<<e.p, e.n>> : e \in GlobExamples}

InitGlob ==
    /\ sess = [s \in 1 .. MaxSessions |-> FreeBlock]
    /\ reg = EmptyRegistry
    /\ now = 0
    /\ hz = TimerHz
    /\ divz = Trap
    /\ width = CycleBits
    /\ rb = NoRing
    /\ pc = AllIdle
    /\ xid = NoIds
    /\ heap = ZeroHeap
    /\ adapters = [k \in AdapterIds |->
                      [mode |-> "ok", adv |-> Len(Catalog(k)),
                       fill |-> Len(Catalog(k))]]
    /\ failAt = 0
    /\ regs = [s \in 1 .. MaxSessions |-> [src |-> 0, snk |-> 0]]
    /\ log = <<>>
    /\ \E x \in GlobInputs : ret = [Ret("init", 0, 0) EXCEPT !.out = x]

\* match_pattern(ret.out[1], ret.out[2]) returns val
GlobMatch ==
    /\ ret.op = "init"
    /\ ret' = [Ret("match_pattern", 0,
                   IF match_pattern(ret.out[1], ret.out[2]) THEN 1 ELSE 0)
                  EXCEPT !.out = ret.out]
    /\ UNCHANGED <<sess, reg, now, hz, divz, width, rb, pc, xid, heap, adapters, failAt,
                   regs, log>>

NextGlob == GlobMatch

SpecGlob == InitGlob /\ [][NextGlob]_vars

\* glob matching by its definition: the pattern p matches the name n
RECURSIVE C29_Glob(_, _)
C29_Glob(p, n) ==
    IF p = <<>> THEN n = <<>>
    ELSE IF Head(p) = "*"
    THEN C29_Glob(Tail(p), n) \/ (n # <<>> /\ C29_Glob(p, Tail(n)))
    ELSE /\ n # <<>>
         /\ Head(p) = "?" \/ Head(p) = Head(n)
         /\ C29_Glob(Tail(p), Tail(n))

\* C29: match_pattern returns true exactly when the pattern matches the
\* whole name, a question mark standing for one character and an asterisk
\* for any number of characters, and gives the documented answer on each
\* documented example.
C29_MatchIsGlob ==
    ret.op = "match_pattern" =>
        /\ (ret.val = 1) = C29_Glob(ret.out[1], ret.out[2])
        /\ \A e \in GlobExamples :
               ret.out = <<e.p, e.n>> => (ret.val = 1) = e.m

\* the matcher has accepted a name through two asterisks
C29_Witness ==
    /\ ret.op = "match_pattern"
    /\ ret.val = 1
    /\ ret.out = << <<"a", "*", "b", "*", "c">>,
                    <<"a", "x", "x", "b", "x", "x", "c">> >>


(***************************************************************************)
(* Specification SpecCross: manual sessions, each with one source that is  *)
(* registered, sampled and unregistered, the first one with a sink; the    *)
(* cached names and values are read and reset through every pair of a      *)
(* session and a source handle, of the same session or of another one.     *)
(***************************************************************************)
CrossCreate ==
    /\ Cardinality(Live) < MaxSessions
    /\ rte_sampler_session_create(ManualConf)

CrossRegisterSource ==
    \E s \in Live :
        /\ regs[s].src = 0
        /\ rte_sampler_source_register(s, regs[s].src + 1, 0, CacheSourceOps)

CrossUnregisterSource ==
    \E s \in Live : \E i \in ValidSources(sess[s]) :
        rte_sampler_source_unregister(s, i)

CrossRegisterSink ==
    \E s \in Live :
        /\ Live = {s}
        /\ regs[s].snk = 0
        /\ rte_sampler_sink_register(s, regs[s].snk + 1, SinkOps("ok", 0))

CrossSample ==
    \E s \in Live :
        /\ \E i \in ValidSources(sess[s]) :
               sess[s].sources[i].xstats_count = 0
        /\ rte_sampler_sample(s)

CrossNamesGet ==
    \E s \in Live : \E o \in Live : \E i \in 1 .. sess[o].num_sources :
        rte_sampler_xstats_names_get(s, o, i, Arr(EmptyNames(3)), 3)

CrossGet ==
    \E s \in Live : \E o \in Live : \E i \in 1 .. sess[o].num_sources :
        rte_sampler_xstats_get(s, o, i, NullArr, Arr(CacheUnset), 3)

CrossReset ==
    \E s \in Live : \E o \in Live : \E i \in 1 .. sess[o].num_sources :
        rte_sampler_xstats_reset(s, o, i, <<>>, 0)

NextCross ==
    \/ CrossCreate
    \/ CrossRegisterSource
    \/ CrossUnregisterSource
    \/ CrossRegisterSink
    \/ CrossSample
    \/ CrossNamesGet
    \/ CrossGet
    \/ CrossReset

SpecCross == Init /\ [][NextCross]_vars

\* every valid source and sink record of a live session refers to it
C30_BackReferences ==
    \A s \in Live :
        /\ \A i \in 1 .. Len(sess[s].sources) :
               sess[s].sources[i].valid => sess[s].sources[i].session = s
        /\ \A j \in 1 .. Len(sess[s].sinks) :
               sess[s].sinks[j].valid => sess[s].sinks[j].session = s

\* the call was refused and did nothing
C30_Refused ==
    /\ ret'.val = -EINVAL
    /\ log' = <<>>
    /\ sess' = sess

C30_Step ==
    \A s \in Live : \A o \in Live : \A i \in 1 .. sess[o].num_sources :
        (o # s \/ ~sess[o].sources[i].valid) =>
            /\ rte_sampler_xstats_names_get(s, o, i, Arr(EmptyNames(3)), 3)
                   => C30_Refused /\ ret'.out = <<>>
            /\ rte_sampler_xstats_get(s, o, i, NullArr, Arr(CacheUnset), 3)
                   => C30_Refused /\ ret'.out = CacheUnset
            /\ rte_sampler_xstats_reset(s, o, i, <<>>, 0) => C30_Refused

\* C30: a valid source or sink record refers to the session it is stored
\* in, and the names, values and reset calls made with a session and a
\* source of another session, or a source that was unregistered, return
\* -EINVAL, call no adapter callback and change no cached value.
C30_ForeignSourceRefused == [][C30_Step]_vars /\ []C30_BackReferences

\* a values call with the source of the other session has been refused
\* while that source held sampled values
C30_Witness ==
    /\ ret.op = "xstats_get"
    /\ ret.val = -EINVAL
    /\ \E o \in Live \ {ret.s} : \E i \in ValidSources(sess[o]) :
           /\ sess[o].sources[i].xstats_count > 0
           /\ sess[o].sources[i].values[1] > 0
    /\ ret.s \in Live
    /\ ValidSources(sess[ret.s]) # {}


(***************************************************************************)
(* Specification SpecHandle: one session on which sources and sinks are    *)
(* registered past the initial capacity of their arrays, no slot being     *)
(* taken twice, and unregistered through the handle of the first and of    *)
(* the latest registration.                                                *)
(***************************************************************************)
HdlCreate ==
    /\ Live = {}
    /\ rte_sampler_session_create(ManualConf)

HdlRegisterSource ==
    \E s \in Live :
        /\ regs[s].src < MaxGrowRegs
        /\ \A i \in 1 .. sess[s].num_sources : sess[s].sources[i].valid
        /\ rte_sampler_source_register(s, regs[s].src + 1, 0, GoodSourceOps)

HdlRegisterSink ==
    \E s \in Live :
        /\ regs[s].snk < MaxRegSinkRegs
        /\ \A j \in 1 .. sess[s].num_sinks : sess[s].sinks[j].valid
        /\ rte_sampler_sink_register(s, regs[s].snk + 1, SinkOps("ok", 0))

HdlUnregisterSource ==
    \E s \in Live : \E m \in {1, regs[s].src} \ {0} : \E v \in BOOLEAN :
        SourceUnregisterAt(s, HandleOf(m, INITIAL_SOURCES_PER_SESSION), v)

HdlUnregisterSink ==
    \E s \in Live : \E m \in {1, regs[s].snk} \ {0} : \E v \in BOOLEAN :
        SinkUnregisterAt(s, HandleOf(m, INITIAL_SINKS_PER_SESSION), v)

NextHandle ==
    \/ HdlCreate
    \/ HdlRegisterSource
    \/ HdlRegisterSink
    \/ HdlUnregisterSource
    \/ HdlUnregisterSink

SpecHandle == Init /\ [][NextHandle]_vars

C31_Step ==
    \A s \in Live : \A v \in BOOLEAN :
        /\ \A m \in {1, regs[s].src} \ {0} :
               (/\ sess[s].sources[m].valid
                /\ SourceUnregisterAt(s, HandleOf(m,
                                          INITIAL_SOURCES_PER_SESSION), v)) =>
                   /\ ret'.val = 0
                   /\ ~sess'[s].sources[m].valid
        /\ \A m \in {1, regs[s].snk} \ {0} :
               (/\ sess[s].sinks[m].valid
                /\ SinkUnregisterAt(s, HandleOf(m,
                                        INITIAL_SINKS_PER_SESSION), v)) =>
                   /\ ret'.val = 0
                   /\ ~sess'[s].sinks[m].valid

\* C31: the handle returned for a source or a sink still designates its
\* record after later registrations, also those that grow the array: an
\* unregister call on the handle of a valid record returns 0 and leaves
\* that record of the session not valid.
C31_HandlesSurviveGrowth == [][C31_Step]_vars


\* the session holds no valid record registered under name m
C32_Gone(arr, n, m) == ~\E i \in 1 .. n : arr[i].valid /\ arr[i].name = m

C32_Step ==
    \A s \in Live :
        /\ (/\ regs[s].src >= 1
            /\ C32_Gone(sess[s].sources, sess[s].num_sources, 1)
            /\ rte_sampler_source_unregister(s, 1)) =>
               /\ ret'.val = -EINVAL
               /\ sess' = sess
        /\ (/\ regs[s].snk >= 1
            /\ C32_Gone(sess[s].sinks, sess[s].num_sinks, 1)
            /\ rte_sampler_sink_unregister(s, 1)) =>
               /\ ret'.val = -EINVAL
               /\ sess' = sess

\* C32: the handle of an unregistered source or sink never designates a
\* record registered later: once the first registered source (sink) has
\* been unregistered, an unregister call on its handle, the address of
\* record 1, returns -EINVAL and leaves every record of the session as it
\* was, also after further registrations.
C32_StaleHandleRefused == [][C32_Step]_vars


(***************************************************************************)
(* Specification SpecEmpty: one manual session with one source and up to   *)
(* MaxSinkRegs sinks, some of which fail or are unregistered; the filter   *)
(* of the source matches one stat or none; the adapter's callbacks fail.   *)
(***************************************************************************)
EmptyFilters == { <<P_none>>, <<S_s1>> }
EmptyModes == {"ok", "size_err", "get_err"}

EmptyCreate ==
    /\ Live = {}
    /\ rte_sampler_session_create(ManualConf)

EmptyRegisterSource ==
    \E s \in Live :
        /\ regs[s].src < 1
        /\ rte_sampler_source_register(s, regs[s].src + 1, 0, GoodSourceOps)

EmptyRegisterSink ==
    \E s \in Live : \E o \in {"ok", "fail"} :
        /\ regs[s].snk < MaxSinkRegs
        /\ \A j \in 1 .. sess[s].num_sinks : sess[s].sinks[j].valid
        /\ rte_sampler_sink_register(s, regs[s].snk + 1, SinkOps(o, 0))

EmptyUnregisterSink ==
    \E s \in Live : \E j \in ValidSinks(sess[s]) :
        rte_sampler_sink_unregister(s, j)

EmptySetFilter ==
    \E s \in Live : \E i \in ValidSources(sess[s]) : \E p \in EmptyFilters :
        /\ ~sess[s].sources[i].filter_active
        /\ rte_sampler_source_set_filter(s, i, p)

EmptyClearFilter ==
    \E s \in Live : \E i \in ValidSources(sess[s]) :
        /\ sess[s].sources[i].filter_active
        /\ rte_sampler_source_clear_filter(s, i)

EmptySetMode == \E m \in EmptyModes : SetAdapterMode(0, m)

EmptySample == \E s \in Live : rte_sampler_sample(s)

NextEmpty ==
    \/ EmptyCreate
    \/ EmptyRegisterSource
    \/ EmptyRegisterSink
    \/ EmptyUnregisterSink
    \/ EmptySetFilter
    \/ EmptyClearFilter
    \/ EmptySetMode
    \/ EmptySample

SpecEmpty == Init /\ [][NextEmpty]_vars

\* the callbacks of kind k that log lg records for the source named m
C33_Calls(lg, k, m) == SelectSeq(lg, LAMBDA e : e.kind = k /\ e.src = m)

\* the output calls that log lg records for source m and sink q
C33_Outputs(lg, m, q) ==
    SelectSeq(lg, LAMBDA e : e.kind = "output" /\ e.src = m /\ e.sink = q)

\* the filter of a cached source lets no stat through
C33_EmptyFilter(src) ==
    src.xstats_count > 0 /\ src.filter_active /\ src.filtered_count = 0

C33_Step ==
    \A s \in Live :
        (sess[s].valid /\ rte_sampler_sample(s)) =>
            \A i \in ValidSources(sess[s]) :
                LET src == sess[s].sources[i]
                    gets == C33_Calls(log', "xstats_get", src.name)
                    discFailed ==
                        /\ src.xstats_count = 0
                        /\ ~Discover(s, src, <<>>, failAt).go
                    getFailed == \E x \in 1 .. Len(gets) : gets[x].rc < 0
                IN /\ C33_EmptyFilter(src) => gets = <<>>
                   /\ \A j \in ValidSinks(sess[s]) :
                        LET o == C33_Outputs(log', src.name,
                                             sess[s].sinks[j].name)
                        IN /\ Len(o) = IF discFailed \/ getFailed
                                       THEN 0 ELSE 1
                           /\ (C33_EmptyFilter(src) /\ Len(o) > 0) =>
                                  o[1].n = 0

\* C33: a pass over a cached source whose active filter lets no stat
\* through makes no xstats_get callback for it and calls every valid sink
\* exactly once for it with n = 0; the sinks are left out for a source only
\* when its discovery fails or its xstats_get callback returns a negative
\* value.
C33_EmptyFilterStillSinks == [][C33_Step]_vars

\* a pass has delivered an empty sample to two sinks, the first of which
\* returned an error
C33_Witness ==
    /\ ret.op = "sample"
    /\ ret.val = 0
    /\ Len(log) = 2
    /\ \A x \in 1 .. 2 : log[x].kind = "output" /\ log[x].n = 0
    /\ log[1].rc < 0
    /\ \E s \in Live : \E i \in ValidSources(sess[s]) :
           C33_EmptyFilter(sess[s].sources[i])


(***************************************************************************)
(* Specification SpecQuery: one manual session with a sink and up to two   *)
(* sources, one per adapter, that are sampled and unregistered; the cache  *)
(* is read with arrays of QueryLen slots and sizes below QueryLen.         *)
(***************************************************************************)
QueryLen == 5
QuerySizes == {0, 2, 4}
QueryUnset == [p \in 1 .. QueryLen |-> 99]
QueryNames == {NullArr, Arr(EmptyNames(QueryLen))}
QueryIds == {NullArr, Arr(<<1, 0, 1, 0>>), Arr(<<2, 7, 0, 1>>)}

QueryCreate ==
    /\ Live = {}
    /\ rte_sampler_session_create(ManualConf)

QueryRegisterSource ==
    \E s \in Live :
        /\ regs[s].snk = 1
        /\ regs[s].src < 2
        /\ \A i \in 1 .. sess[s].num_sources : sess[s].sources[i].valid
        /\ rte_sampler_source_register(s, regs[s].src + 1, regs[s].src,
                                       GoodSourceOps)

QueryUnregisterSource ==
    \E s \in Live : \E i \in ValidSources(sess[s]) :
        rte_sampler_source_unregister(s, i)

QueryRegisterSink ==
    \E s \in Live :
        /\ regs[s].snk < 1
        /\ rte_sampler_sink_register(s, regs[s].snk + 1, SinkOps("ok", 0))

QuerySample ==
    \E s \in Live :
        /\ \E i \in ValidSources(sess[s]) : sess[s].sources[i].xstats_count = 0
        /\ rte_sampler_sample(s)

QueryNamesGet ==
    \E s \in Live : \E i \in {0} \cup ValidSources(sess[s]) :
        \E names \in QueryNames : \E size \in QuerySizes :
            rte_sampler_xstats_names_get(s, s, i, names, size)

QueryGet ==
    \E s \in Live : \E i \in {0} \cup ValidSources(sess[s]) :
        \E ids \in QueryIds : \E n \in QuerySizes :
            rte_sampler_xstats_get(s, s, i, ids, Arr(QueryUnset), n)

NextQuery ==
    \/ QueryCreate
    \/ QueryRegisterSource
    \/ QueryUnregisterSource
    \/ QueryRegisterSink
    \/ QuerySample
    \/ QueryNamesGet
    \/ QueryGet

SpecQuery == Init /\ [][NextQuery]_vars

\* the slots of the caller's array that a call has written
C34_Written(before, after) ==
    {p \in 1 .. Len(before) : after[p] # before[p]}

\* the cached count of the source in slot i, of all valid sources if i = 0
C34_Count(S, i) ==
    IF i = 0 THEN Len(AllNames(S, 1)) ELSE S.sources[i].xstats_count

C34_Step ==
    \A s \in Live : \A i \in {0} \cup ValidSources(sess[s]) :
        \A size \in QuerySizes :
            /\ rte_sampler_xstats_names_get(s, s, i, NullArr, size) =>
                   ret'.val = C34_Count(sess[s], i)
            /\ rte_sampler_xstats_names_get(s, s, i,
                    Arr(EmptyNames(QueryLen)), size) =>
                   LET k == Min(size, C34_Count(sess[s], i))
                   IN /\ C34_Written(EmptyNames(QueryLen), ret'.out) = 1 .. k
                      /\ SubSeq(ret'.out, 1, k) =
                             SubSeq(AllNames(
                                 IF i = 0 THEN sess[s]
                                 ELSE [sess[s] EXCEPT !.sources =
                                          <<sess[s].sources[i]>>,
                                          !.num_sources = 1], 1), 1, k)
                      /\ i # 0 => ret'.val = k
            /\ \A ids \in QueryIds :
                   rte_sampler_xstats_get(s, s, i, ids, Arr(QueryUnset),
                                          size) =>
                       /\ C34_Written(QueryUnset, ret'.out) \subseteq 1 .. size
                       /\ i # 0 =>
                             /\ ret'.val = Min(size, C34_Count(sess[s], i))
                             /\ ret'.val = Cardinality(
                                    C34_Written(QueryUnset, ret'.out))

\* C34: rte_sampler_xstats_names_get writes no slot of the caller's array
\* beyond the first size and rte_sampler_xstats_get none beyond the first
\* n, for one source and for all sources (the valid sources concatenated
\* in array order); names_get with a NULL array returns the cached count;
\* the single-source calls with an array return the number of slots they
\* wrote, min(size, cached count).
C34_QueriesBounded == [][C34_Step]_vars


\* C35: for every cycle count now at or after the reference time of a
\* started session (its start_time for is_active, its last_sample_time for
\* poll) the elapsed milliseconds computed at lines 290 and 637 equal
\* floor((now - reference) * 1000 / timer_hz): the product does not wrap.
C35_ElapsedExact ==
    \A s \in Live :
        (sess[s].valid /\ sess[s].active /\ hz > 0) =>
            /\ now >= sess[s].start_time =>
                   ElapsedMs(now, sess[s].start_time)
                      = TrueElapsedMs(now, sess[s].start_time)
            /\ now >= sess[s].last_sample_time =>
                   ElapsedMs(now, sess[s].last_sample_time)
                      = TrueElapsedMs(now, sess[s].last_sample_time)


(***************************************************************************)
(* Specification SpecRing: one manual session with a ring buffer sink of   *)
(* RingEntries entries; samples are delivered to it one call at a time and *)
(* it is counted, read, cleared and destroyed, while allocations fail.     *)
(***************************************************************************)
RingEntries == 2
MaxRingRegs == 2

\* samples as a pass delivers them: all stats of a source on adapter 0,
\* the stats of a source on adapter 1 whose filter lets one through, and
\* those of a source whose filter lets none through
RingSamples ==
    { [src |-> 1, source_id |-> 0, ids |-> <<0, 1, 2>>,
       values |-> <<10, 20, 30>>, n |-> 3],
      [src |-> 2, source_id |-> 1, ids |-> <<4, 0, 0, 0, 0>>,
       values |-> <<50, 0, 0, 0, 0>>, n |-> 1],
      [src |-> 1, source_id |-> 0, ids |-> <<0, 0, 0>>,
       values |-> <<0, 0, 0>>, n |-> 0] }

\* the caller's array of a read
RingArray == Arr([p \in 1 .. RingEntries + 1 |-> UnsetEntry])

RingCreateSession ==
    /\ Live = {}
    /\ rte_sampler_session_create(ManualConf)

RingCreate ==
    \E s \in Live : \E m \in {0, RingEntries} :
        /\ regs[s].snk < MaxRingRegs
        /\ ~RingDead
        /\ rte_sampler_sink_ringbuffer_create(s, regs[s].snk + 1,
                                              [max_entries |-> m])

RingOutput ==
    \E smp \in RingSamples : \E u \in DoubleFreeOutcomes :
        ringbuffer_sink_output(smp, u)

RingCount ==
    \E s \in Live : \E sink \in {rb.sink, SinkRef(s, 1), NoSinkRef} :
        rte_sampler_sink_ringbuffer_count(sink)

RingRead ==
    \E s \in Live : \E m \in 0 .. RingEntries + 1 :
        \E entries \in {NullArr, RingArray} : \E u \in FreedReadOutcomes :
            /\ rb.alloc
            /\ rte_sampler_sink_ringbuffer_read(rb.sink, entries, m, u)

RingClear ==
    \E u \in DoubleFreeOutcomes :
        /\ rb.alloc
        /\ rte_sampler_sink_ringbuffer_clear(rb.sink, u)

RingDestroy ==
    \E u \in DoubleFreeOutcomes :
        /\ rb.alloc
        /\ rte_sampler_sink_ringbuffer_destroy(rb.sink, u)

RingSetFailAt ==
    \E k \in 1 .. 2 :
        /\ rb.alloc
        /\ ~RingDead
        /\ SetFailAt(k)

NextRing ==
    \/ RingCreateSession
    \/ RingCreate
    \/ RingOutput
    \/ RingCount
    \/ RingRead
    \/ RingClear
    \/ RingDestroy
    \/ RingSetFailAt

SpecRing == Init /\ [][NextRing]_vars

\* the slots tail, tail + 1, ... that hold the count stored entries
C36_Stored(D) ==
    {((D.tail + i) % D.max_entries) + 1 : i \in 0 .. D.count - 1}

C36_Inv ==
    rb.alloc =>
        /\ rb.count \in 0 .. rb.max_entries
        /\ rb.head \in 0 .. rb.max_entries - 1
        /\ rb.tail \in 0 .. rb.max_entries - 1
        /\ rb.head = (rb.tail + rb.count) % rb.max_entries
        /\ {p \in 1 .. rb.max_entries : rb.entries[p].valid} = C36_Stored(rb)

C36_Step ==
    /\ (rb.alloc /\ rte_sampler_sink_ringbuffer_count(rb.sink)) =>
           ret'.val = rb.count
    /\ \A u \in DoubleFreeOutcomes :
           (/\ rb.alloc
            /\ rte_sampler_sink_ringbuffer_clear(rb.sink, u)
            /\ ret'.op = "ringbuffer_clear") =>
               /\ ret'.val = 0
               /\ rb'.head = 0 /\ rb'.tail = 0 /\ rb'.count = 0
               /\ \A p \in 1 .. rb'.max_entries : ~rb'.entries[p].valid

\* C36: a ring buffer created with max_entries = M keeps 0 <= count <= M,
\* head < M, tail < M, head = (tail + count) mod M and exactly the count
\* slots tail, tail + 1, ... (mod M) valid through every output, read,
\* count and clear; count returns count; clear leaves head = tail = count
\* = 0 and no slot valid.
C36_RingInvariant == [][C36_Step]_vars /\ []C36_Inv

\* the buffer has wrapped: it is full, the oldest entry is not in slot 0,
\* and count has reported M
C36_Witness ==
    /\ rb.alloc
    /\ rb.count = rb.max_entries
    /\ rb.tail > 0
    /\ ret.op = "ringbuffer_count"
    /\ ret.val = rb.max_entries


\* what a stored entry holds; readable says that its arrays are allocated
C37_Stored(e) ==
    [source_id |-> e.source_id, ids |-> e.ids, values |-> e.values,
     readable |-> e.valid /\ e.ids_at = "live" /\ e.values_at = "live"]

\* what a call of the output callback delivered
C37_Delivered(smp) ==
    [source_id |-> smp.source_id, ids |-> SubSeq(smp.ids, 1, smp.n),
     values |-> SubSeq(smp.values, 1, smp.n), readable |-> TRUE]

\* the stored entries, oldest first
C37_Contents(D) ==
    [i \in 1 .. D.count |->
        C37_Stored(D.entries[((D.tail + i - 1) % D.max_entries) + 1])]

\* the last m elements of a sequence
C37_Last(q, m) == IF Len(q) <= m THEN q ELSE SubSeq(q, Len(q) - m + 1, Len(q))

C37_Step ==
    /\ \A smp \in RingSamples : \A u \in DoubleFreeOutcomes :
           (/\ ringbuffer_sink_output(smp, u)
            /\ ret'.op = "ringbuffer_output"
            /\ ret'.val = 0) =>
               C37_Contents(rb') =
                   C37_Last(Append(C37_Contents(rb), C37_Delivered(smp)),
                            rb.max_entries)
    /\ \A m \in 0 .. RingEntries + 1 : \A u \in FreedReadOutcomes :
           (/\ rb.alloc
            /\ rte_sampler_sink_ringbuffer_read(rb.sink, RingArray, m, u)) =>
               /\ ret'.op = "ringbuffer_read"
               /\ ret'.val = Min(m, rb.count)
               /\ rb' = rb
               /\ \A x \in 1 .. Min(m, rb.count) :
                      /\ C37_Contents(rb)[x].readable
                      /\ ret'.out[x].set
                      /\ ret'.out[x].source_id = C37_Contents(rb)[x].source_id
                      /\ ret'.out[x].ids = Arr(C37_Contents(rb)[x].ids)
                      /\ ret'.out[x].values = Arr(C37_Contents(rb)[x].values)

\* C37: a successful output on a full buffer replaces the oldest entry, so
\* that the buffer holds the min(outputs since the last clear, M) most
\* recent samples in arrival order; read(max) returns min(max, count)
\* entries, oldest first, each with the source id, the ids and the values
\* that were delivered, and leaves head, tail, count and the entries as
\* they were.
C37_RingOrder == [][C37_Step]_vars

C38_Live(D) ==
    \A p \in 1 .. D.max_entries :
        D.entries[p].valid =>
            D.entries[p].ids_at = "live" /\ D.entries[p].values_at = "live"

C38_Step ==
    \A smp \in RingSamples : \A u \in DoubleFreeOutcomes :
        (/\ C38_Live(rb)
         /\ ringbuffer_sink_output(smp, u)
         /\ ret'.op = "ringbuffer_output"
         /\ ret'.val = -ENOMEM) =>
            /\ rb'.head = rb.head
            /\ rb'.tail = rb.tail
            /\ rb'.count = rb.count
            /\ \A p \in 1 .. rb.max_entries :
                   rb.entries[p].valid => rb'.entries[p] = rb.entries[p]
            /\ C38_Live(rb')

\* C38: an output call that returns -ENOMEM leaves head, tail and count as
\* they were and every stored entry with its ids and values, and no valid
\* slot refers to arrays that have been released.
C38_FailedOutputKeepsBuffer == [][C38_Step]_vars


(***************************************************************************)
(* Specification SpecIds: the id allocator started with the first k ids    *)
(* in use, for the k of IdsInUse, and called with the ids of IdInputs.     *)
(***************************************************************************)
IdsInUse == {0, 3, XSTATS_ID_BITS - 3, XSTATS_ID_BITS - 1, XSTATS_ID_BITS}
IdInputs == {0, 1, XSTATS_ID_BITS - 1, XSTATS_ID_BITS, 2 * XSTATS_ID_BITS + 1}

\* the allocator after rte_sampler_xstats_set_id_bit(0) .. (k - 1) and
\* rte_sampler_xstats_set_next_free_id(h)
InitIds ==
    /\ sess = [s \in 1 .. MaxSessions |-> FreeBlock]
    /\ reg = EmptyRegistry
    /\ now = 0
    /\ hz = TimerHz
    /\ divz = Trap
    /\ width = CycleBits
    /\ rb = NoRing
    /\ pc = AllIdle
    /\ heap = ZeroHeap
    /\ adapters = [k \in AdapterIds |->
                      [mode |-> "ok", adv |-> Len(Catalog(k)),
                       fill |-> Len(Catalog(k))]]
    /\ failAt = 0
    /\ regs = [s \in 1 .. MaxSessions |-> [src |-> 0, snk |-> 0]]
    /\ log = <<>>
    /\ ret = Ret("init", 0, 0)
    /\ \E k \in IdsInUse : \E h \in IdInputs :
          xid = [allocated_ids |-> 0 .. k - 1,
                 next_free_id |-> h % XSTATS_ID_BITS]

IdsGetNext == rte_sampler_xstats_get_next_free_id
IdsSetNext == \E id \in IdInputs : rte_sampler_xstats_set_next_free_id(id)
IdsSetBit == \E id \in IdInputs : rte_sampler_xstats_set_id_bit(id)
IdsClearBit == \E id \in IdInputs : rte_sampler_xstats_clear_id_bit(id)

NextIds ==
    \/ IdsGetNext
    \/ IdsSetNext
    \/ IdsSetBit
    \/ IdsClearBit

SpecIds == InitIds /\ [][NextIds]_vars

C40_AllInUse == xid.allocated_ids = 0 .. XSTATS_ID_BITS - 1

C40_Step ==
    rte_sampler_xstats_get_next_free_id =>
        IF C40_AllInUse
        THEN ret'.val = UINT64_MAX /\ xid' = xid
        ELSE /\ ret'.val \in 0 .. XSTATS_ID_BITS - 1
             /\ ret'.val \notin xid.allocated_ids
             /\ xid'.allocated_ids = xid.allocated_ids \cup {ret'.val}

\* C40: after any sequence of calls of the allocator,
\* rte_sampler_xstats_get_next_free_id returns an id in 0 .. 63 whose bit
\* was clear before the call and sets that bit; it returns UINT64_MAX and
\* changes nothing if and only if all 64 ids are in use.
C40_NeverHandsOutUsedId == [][C40_Step]_vars

\* the search has gone past id 63 to find a free id below the hint
C40_Witness ==
    /\ ret.op = "get_next_free_id"
    /\ ret.val = 1
    /\ xid.allocated_ids = (0 .. XSTATS_ID_BITS - 1) \ {0}
    /\ xid.next_free_id = 2


(***************************************************************************)
(* Specification SpecRingMT: a ring buffer sink is created; then the       *)
(* thread "sampler" runs sampling passes that deliver samples to it while  *)
(* the thread "reader" calls count, read, clear and destroy on it.  Each   *)
(* thread takes one step at a time; no allocation fails.                   *)
(***************************************************************************)
MtSamples == {smp \in RingSamples : smp.n > 0}
MtCalls == {"ringbuffer_count", "ringbuffer_read", "ringbuffer_clear",
            "destroy"}

MtCreateSession ==
    /\ Live = {}
    /\ rte_sampler_session_create(ManualConf)

MtCreate ==
    \E s \in Live :
        /\ regs[s].snk < 1
        /\ rte_sampler_sink_ringbuffer_create(s, regs[s].snk + 1,
                                              [max_entries |-> RingEntries])

MtOutputEnter ==
    \E s \in Live : \E smp \in MtSamples :
        Output_Enter("sampler", SinkRef(s, 1), smp)

MtApiEnter ==
    \E s \in Live : \E op \in MtCalls :
        Api_Enter("reader", op, SinkRef(s, 1), 1)

MtLock ==
    \E t \in Threads : \E o \in UseAfterFreeOutcomes : Ring_Lock(t, o)

MtBody ==
    \E t \in Threads : \E o \in UseAfterFreeOutcomes : Ring_Body(t, o)

MtDestroyUnregister == Destroy_Unregister("reader")

MtDestroyFree ==
    \E o \in UseAfterFreeOutcomes : Destroy_Free("reader", o)

MtDestroySinkUnregister == Destroy_SinkUnregister("reader")

NextRingMT ==
    \/ MtCreateSession
    \/ MtCreate
    \/ MtOutputEnter
    \/ MtApiEnter
    \/ MtLock
    \/ MtBody
    \/ MtDestroyUnregister
    \/ MtDestroyFree
    \/ MtDestroySinkUnregister

SpecRingMT == Init /\ [][NextRingMT]_vars

\* thread t is between the lock and the unlock of data->lock
C39_InCritical(t) == pc[t].at = "body"

\* thread t holds a pointer to the data block that it is going to use
C39_UsesData(t) == pc[t].at \in {"lock", "body", "free"}

C39_Inv ==
    /\ \A t \in Threads : C39_InCritical(t) => (rb.alloc => rb.lock = t)
    /\ \A t, r \in Threads : (C39_InCritical(t) /\ C39_InCritical(r)) => t = r
    /\ \A t \in Threads : C39_UsesData(t) => rb.alloc
    /\ rb.fault = "none"

\* C39: while one thread delivers samples to the ring buffer and another
\* calls read, count, clear or destroy on the same sink, the statements
\* that update head, tail and count are executed by one thread at a time,
\* under data->lock, and no thread that is about to lock, read, write or
\* release the data block finds it already released by destroy.
C39_RingThreadSafe == []C39_Inv

====
